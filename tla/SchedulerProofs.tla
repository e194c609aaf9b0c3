--------------------------- MODULE SchedulerProofs --------------------------
(* The election, the scheduler and its votes, for any hosts, any number of   *)
(* them to pick, and any sequence of swaps, crashes, expiries and failures.  *)
EXTENDS Scheduler, TLAPS, FiniteSetTheorems

(***************************************************************************)
(* The inductive invariant                                                 *)
(***************************************************************************)

DeadKey(h) == [host |-> h, live |-> FALSE]

\* A host whose key is gone does not get a new one in this life, and one that
\* believes it is elected holds the election, has lost its session, or heard of
\* the key of its former life.
Candidate(h) ==
    /\ campaign[h] # "off" <=> h \in Looping
    /\ Key(h) \in Range(keys) => campaign[h] \in {"wait", "done"} /\ h \notin lost
    /\ DeadKey(h) \in Range(keys) => campaign[h] \in {"off", "nil"}
    /\ campaign[h] = "done" => HoldsElection(h) \/ h \in lost
    /\ startup[h] # None => campaign[h] = "nil"
    /\ campaign[h] = "off" => h \notin lost /\ elected[h] = None
    /\ elected[h] = h => HoldsElection(h) \/ h \in lost \/ campaign[h] = "nil"

\* what a strategy remembers begins with the decision that is stored, as long
\* as its host holds the election, and it does not get the election back
First(list) == {list[i] : i \in {j \in DOMAIN list : j <= MaxCount}}
Remembers(h) ==
    cache[h] # <<>> /\ h \notin exited /\ ~usurped =>
        /\ HoldsElection(h) \/ h \in lost \/ loop[h] \in {"exit", "die"}
        /\ HoldsElection(h) => schedule \subseteq First(cache[h])

\* the elected host has decided on the votes, is about to, or is told of others
Decides(h) ==
    Leads(h) /\ h \notin hostEv =>
        /\ loop[h] = "wait" /\ ~usurped => Fits
        /\ loop[h] = "decide" => snap[h] = Voters

\* a host without a scheduler has no resource and no vote that it renews
Owns(h) ==
    /\ loop[h] = "off" => /\ vote[h] # "leased" \/ voteLost
                          /\ swap[h] # "clean" /\ (swap[h] = "no" => res[h] = "none")
    /\ loop[h] = "exit" => swap[h] = "stop"
    /\ loop[h] = "dead" => voteLost
    /\ swap[h] = "enter" => next[h] # "none"
    /\ vote[h] = "leased" => res[h] # "none" \/ swap[h] # "no" \/ voteLost

IInv ==
    /\ TypeOK /\ Cardinality(schedule) <= MaxCount
    /\ \A h \in Host : Candidate(h) /\ Remembers(h) /\ Decides(h) /\ Owns(h)

(***************************************************************************)
(* Filter: what it keeps, in which order, and how far things move.         *)
(***************************************************************************)

Kept(list, S) == {i \in DOMAIN list : list[i] \in S}
Rank(D, i) == Cardinality({j \in D : j <= i})

\* the elements of a set of numbers can be counted off
LEMMA Ranks ==
    ASSUME NEW n \in Nat, NEW D \in SUBSET (1..n)
    PROVE  /\ IsFiniteSet(D) /\ Cardinality(D) \in Nat
           /\ \A i \in D : Rank(D, i) \in 1..Cardinality(D) /\ Rank(D, i) <= i
           /\ \A i, j \in D : Rank(D, i) = Rank(D, j) => i = j
           /\ \A k \in 1..Cardinality(D) : \E i \in D : Rank(D, i) = k
<1> DEFINE B(i) == {j \in D : j <= i}
<1> USE DEF B
<1>1. IsFiniteSet(D) /\ Cardinality(D) \in Nat
  <2>1. IsFiniteSet(1..n)
    BY FS_Interval
  <2>2. IsFiniteSet(D)
    BY <2>1, FS_Subset
  <2> QED
    BY <2>2, FS_CardinalityType
<1>2. ASSUME NEW i \in D
      PROVE  IsFiniteSet(B(i)) /\ Rank(D, i) \in 1..Cardinality(D) /\ Rank(D, i) <= i
  <2>1. /\ B(i) \in SUBSET D /\ B(i) \in SUBSET (1..i) /\ {i} \in SUBSET B(i)
        /\ i \in Nat /\ i >= 1
    <3>1. i \in 1..n /\ \A j \in D : j \in 1..n
      OBVIOUS
    <3>2. B(i) \subseteq D /\ i \in B(i)
      BY <3>1
    <3>3. ASSUME NEW j \in B(i) PROVE j \in 1..i
      BY <3>1
    <3>4. i \in Nat /\ i >= 1
      BY <3>1
    <3> HIDE DEF B
    <3> QED
      BY <3>2, <3>3, <3>4
  <2>2. IsFiniteSet(B(i)) /\ Cardinality(B(i)) <= Cardinality(D) /\ Cardinality(B(i)) \in Nat
    BY <1>1, <2>1, FS_Subset, FS_CardinalityType
  <2>3. Cardinality(B(i)) <= i
    BY <2>1, FS_Interval, FS_Subset
  <2>4. 1 <= Cardinality(B(i))
    <3>1. Cardinality({i}) <= Cardinality(B(i)) /\ Cardinality({i}) = 1
      BY <2>1, <2>2, FS_Subset, FS_Singleton
    <3> QED
      BY <3>1
  <2> QED
    BY <1>1, <2>2, <2>3, <2>4 DEF Rank
<1>3. ASSUME NEW i \in D, NEW j \in D, Rank(D, i) = Rank(D, j), i < j PROVE FALSE
  <2>1. B(i) \in SUBSET B(j) /\ j \in B(j) /\ j \notin B(i)
    <3>1. i \in Nat /\ j \in Nat /\ \A k \in D : k \in Nat
      OBVIOUS
    <3>2. ASSUME NEW k \in B(i) PROVE k \in B(j)
      BY <1>3, <3>1
    <3>3. j \in B(j) /\ j \notin B(i)
      BY <1>3, <3>1
    <3> QED
      BY <3>2, <3>3
  <2> QED
    BY <1>2, <1>3, <2>1, FS_Subset DEF Rank
<1>4. \A i, j \in D : Rank(D, i) = Rank(D, j) => i = j
  BY <1>3
<1>5. ASSUME NEW k \in 1..Cardinality(D) PROVE \E i \in D : Rank(D, i) = k
  <2> DEFINE f == [i \in D |-> Rank(D, i)]
  <2>1. f \in Injection(D, 1..Cardinality(D))
    BY <1>2, <1>4 DEF Injection, IsInjective
  <2>2. IsFiniteSet(1..Cardinality(D)) /\ Cardinality(1..Cardinality(D)) = Cardinality(D)
    BY <1>1, FS_Interval
  <2>3. f \in Surjection(D, 1..Cardinality(D))
    BY <2>1, <2>2, FS_Injection
  <2> QED
    BY <2>3 DEF Surjection
<1> QED
  BY <1>1, <1>2, <1>4, <1>5

\* Filter lists what is in S, the earlier the earlier it was, and nothing twice
\* that was there once.
LEMMA Filtered ==
    ASSUME NEW T, NEW list \in Seq(T), NEW S
    PROVE  /\ Filter(list, S) \in Seq(T)
           /\ Range(Filter(list, S)) = Range(list) \cap S
           /\ IsInjective(list) => IsInjective(Filter(list, S))
           /\ \A i \in DOMAIN list : list[i] \in S =>
                \E k \in 1..i : k \in DOMAIN Filter(list, S) /\ Filter(list, S)[k] = list[i]
<1> DEFINE D == Kept(list, S)
           c == Cardinality(D)
           nth(k) == CHOOSE i \in D : Rank(D, i) = k
           out == Filter(list, S)
<1>1. /\ Len(list) \in Nat /\ DOMAIN list = 1..Len(list) /\ D \in SUBSET (1..Len(list))
      /\ \A i \in D : i \in DOMAIN list /\ list[i] \in S /\ list[i] \in T
      /\ \A i \in DOMAIN list : list[i] \in S => i \in D
  BY DEF Kept
<1>2. /\ c \in Nat
      /\ \A i \in D : Rank(D, i) \in 1..c /\ Rank(D, i) <= i
      /\ \A i, j \in D : Rank(D, i) = Rank(D, j) => i = j
      /\ \A k \in 1..c : \E i \in D : Rank(D, i) = k
  BY <1>1, Ranks
<1>3. out = [k \in 1..c |-> list[nth(k)]]
  <2> DEFINE upTo(i) == {j \in 1..i : list[j] \in S}
             pick(k) == CHOOSE i \in 1..Len(list) : list[i] \in S /\ Cardinality(upTo(i)) = k
  <2>1. ASSUME NEW i \in 1..Len(list) PROVE upTo(i) = {j \in D : j <= i}
    BY <1>1 DEF Kept
  <2>2. upTo(Len(list)) = D
    BY <1>1 DEF Kept
  <2>3. ASSUME NEW k PROVE pick(k) = nth(k)
    <3>1. ASSUME NEW i
          PROVE  i \in 1..Len(list) /\ list[i] \in S /\ Cardinality(upTo(i)) = k
                 <=> i \in D /\ Rank(D, i) = k
      BY <1>1, <2>1 DEF Rank
    <3> HIDE DEF upTo, D
    <3> QED
      BY <3>1
  <2>4. out = [k \in 1..Cardinality(upTo(Len(list))) |-> list[pick(k)]]
    BY DEF Filter
  <2> HIDE DEF upTo, pick, D, nth
  <2> QED
    BY <2>2, <2>3, <2>4
<1> HIDE DEF D, c, out
<1>4. \A k \in 1..c : nth(k) \in D /\ Rank(D, nth(k)) = k
  BY <1>2
<1>5. \A i \in D : nth(Rank(D, i)) = i
  BY <1>2, <1>4
<1> HIDE DEF nth
<1>6. DOMAIN out = 1..c /\ \A k \in 1..c : out[k] = list[nth(k)]
  BY <1>3
<1>7. out \in Seq(T)
  <2>1. out \in [1..c -> T]
    BY <1>1, <1>3, <1>4
  <2> QED
    BY <1>2, <2>1
<1>8. \A i \in D : Rank(D, i) \in 1..c /\ out[Rank(D, i)] = list[i]
  BY <1>2, <1>5, <1>6
<1>9. Range(out) = Range(list) \cap S
  <2>1. ASSUME NEW x \in Range(out) PROVE x \in Range(list) \cap S
    <3>1. PICK k \in 1..c : x = list[nth(k)]
      BY <1>6 DEF Range
    <3> QED
      BY <1>1, <1>4, <3>1 DEF Range
  <2>2. ASSUME NEW x \in Range(list) \cap S PROVE x \in Range(out)
    <3>1. PICK i \in DOMAIN list : x = list[i]
      BY DEF Range
    <3>2. i \in D
      BY <1>1, <3>1
    <3> QED
      BY <1>6, <1>8, <3>1, <3>2 DEF Range
  <2> QED
    BY <2>1, <2>2
<1>10. ASSUME IsInjective(list) PROVE IsInjective(out)
  <2>1. ASSUME NEW k \in 1..c, NEW l \in 1..c, out[k] = out[l] PROVE k = l
    <3>1. nth(k) = nth(l)
      BY <1>1, <1>4, <1>6, <1>10, <2>1 DEF IsInjective
    <3> QED
      BY <1>4, <3>1
  <2> QED
    BY <1>6, <2>1 DEF IsInjective
<1>11. ASSUME NEW i \in DOMAIN list, list[i] \in S
       PROVE  \E k \in 1..i : k \in DOMAIN out /\ out[k] = list[i]
  <2>1. i \in D /\ Rank(D, i) \in 1..c /\ Rank(D, i) <= i /\ i \in Nat
    BY <1>1, <1>2, <1>11
  <2>2. Rank(D, i) \in 1..i
    BY <1>2, <2>1
  <2> QED
    BY <1>6, <1>8, <2>1, <2>2
<1> QED
  BY <1>7, <1>9, <1>10, <1>11 DEF out

(***************************************************************************)
(* The keys of the election                                                *)
(***************************************************************************)

KeyRecord == [host : Host, live : BOOLEAN]

LEMMA KeyTypes ==
    \A h \in Host : /\ Key(h) \in KeyRecord /\ DeadKey(h) \in KeyRecord
                    /\ \A g \in Host : Key(h) # DeadKey(g) /\ (Key(h) = Key(g) => h = g)
  BY DEF Key, DeadKey, KeyRecord

LEMMA HeadFacts ==
    ASSUME NEW T, NEW s \in Seq(T), s # <<>>
    PROVE  1 \in DOMAIN s /\ Head(s) = s[1] /\ Head(s) \in Range(s) /\ Head(s) \in T
  BY DEF Range

LEMMA Held ==
    ASSUME NEW h \in Host, TypeOK, HoldsElection(h)
    PROVE  Key(h) \in Range(keys)
  BY HeadFacts DEF TypeOK, HoldsElection

LEMMA AfterNothing ==
    ASSUME keys' = keys
    PROVE  \A g \in Host : HoldsElection(g)' = HoldsElection(g)
  BY DEF HoldsElection, Key

LEMMA AfterRemoval ==
    ASSUME TypeOK, NEW k \in KeyRecord, keys' = Without(k)
    PROVE  /\ keys' \in Seq(KeyRecord) /\ Range(keys') = Range(keys) \ {k}
           /\ \A g \in Host : /\ HoldsElection(g) /\ Key(g) # k => HoldsElection(g)'
                              /\ HoldsElection(g)' => Key(g) \in Range(keys) /\ Key(g) # k
<1>1. keys \in Seq(KeyRecord)
  BY DEF TypeOK, KeyRecord
<1>2. keys' \in Seq(KeyRecord) /\ Range(keys') = Range(keys) \ {k}
  BY <1>1, Filtered DEF Without
<1>3. ASSUME NEW g \in Host, HoldsElection(g), Key(g) # k PROVE HoldsElection(g)'
  <2>1. /\ keys # <<>> /\ 1 \in DOMAIN keys /\ keys[1] = Key(g)
        /\ Key(g) \in Range(keys) \ {k}
    BY <1>1, <1>3, HeadFacts DEF HoldsElection
  <2>2. PICK i \in 1..1 : i \in DOMAIN keys' /\ keys'[i] = keys[1]
    BY <1>1, <2>1, Filtered DEF Without
  <2>3. keys' # <<>> /\ Head(keys') = Key(g)
    BY <1>2, <2>1, <2>2
  <2> QED
    BY <2>3 DEF HoldsElection, Key
<1>4. ASSUME NEW g \in Host, HoldsElection(g)' PROVE Key(g) \in Range(keys) /\ Key(g) # k
  <2>1. keys' # <<>> /\ Head(keys') = Key(g)
    BY <1>4 DEF HoldsElection, Key
  <2> QED
    BY <1>2, <2>1, HeadFacts
<1> QED
  BY <1>2, <1>3, <1>4

LEMMA AfterAppend ==
    ASSUME TypeOK, NEW h \in Host, keys' = Append(keys, Key(h))
    PROVE  /\ keys' \in Seq(KeyRecord) /\ Range(keys') = Range(keys) \cup {Key(h)}
           /\ \A g \in Host : /\ HoldsElection(g) => HoldsElection(g)'
                              /\ HoldsElection(g)' => HoldsElection(g) \/ g = h
<1>1. keys \in Seq(KeyRecord) /\ Key(h) \in KeyRecord
  BY KeyTypes DEF TypeOK, KeyRecord
<1>2. /\ keys' \in Seq(KeyRecord) /\ DOMAIN keys' = 1..Len(keys) + 1 /\ Len(keys) \in Nat
      /\ DOMAIN keys = 1..Len(keys) /\ keys'[Len(keys) + 1] = Key(h)
      /\ \A i \in 1..Len(keys) : keys'[i] = keys[i]
  BY <1>1
<1>3. Range(keys') = Range(keys) \cup {Key(h)}
  <2>1. ASSUME NEW x \in Range(keys') PROVE x \in Range(keys) \cup {Key(h)}
    <3>1. PICK i \in DOMAIN keys' : x = keys'[i]
      BY DEF Range
    <3>2. i = Len(keys) + 1 \/ i \in 1..Len(keys)
      BY <1>2
    <3> QED
      BY <1>2, <3>1, <3>2 DEF Range
  <2>2. ASSUME NEW x \in Range(keys) \cup {Key(h)} PROVE x \in Range(keys')
    <3>1. CASE x = Key(h)
      <4>1. Len(keys) + 1 \in DOMAIN keys'
        BY <1>2
      <4> QED
        BY <1>2, <3>1, <4>1 DEF Range
    <3>2. CASE x \in Range(keys)
      <4>1. PICK i \in 1..Len(keys) : x = keys[i]
        BY <1>2, <3>2 DEF Range
      <4>2. i \in DOMAIN keys' /\ keys'[i] = x
        BY <1>2, <4>1
      <4> QED
        BY <4>2 DEF Range
    <3> QED
      BY <3>1, <3>2
  <2> QED
    BY <2>1, <2>2
<1>4. /\ keys' # <<>> /\ Head(keys') = keys'[1]
      /\ keys # <<>> => Head(keys') = Head(keys)
      /\ keys = <<>> => Head(keys') = Key(h)
  BY <1>1, <1>2
<1>5. \A g \in Host : HoldsElection(g)' <=> Head(keys') = Key(g)
  BY <1>4 DEF HoldsElection, Key
<1>6. \A g \in Host : HoldsElection(g) <=> keys # <<>> /\ Head(keys) = Key(g)
  BY DEF HoldsElection
<1> QED
  BY <1>2, <1>3, <1>4, <1>5, <1>6, KeyTypes

LEMMA AfterDeath ==
    ASSUME TypeOK, NEW h \in Host, ObserverDies(h)
    PROVE  /\ keys' \in Seq(KeyRecord)
           /\ \A g \in Host :
                /\ Key(g) \in Range(keys') => g # h /\ Key(g) \in Range(keys)
                /\ DeadKey(g) \in Range(keys') => g = h \/ DeadKey(g) \in Range(keys)
                /\ HoldsElection(g)' <=> g # h /\ HoldsElection(g)
<1>1. keys \in Seq(KeyRecord) /\ DOMAIN keys = 1..Len(keys) /\ Len(keys) \in Nat
  BY DEF TypeOK, KeyRecord
<1>2. keys' = [i \in DOMAIN keys |-> IF keys[i].host = h THEN DeadKey(h) ELSE keys[i]]
  BY DEF ObserverDies, DeadKey
<1>3. ASSUME NEW i \in DOMAIN keys
      PROVE  /\ keys[i] \in KeyRecord /\ keys'[i] \in KeyRecord
             /\ keys'[i] = IF keys[i].host = h THEN DeadKey(h) ELSE keys[i]
  BY <1>1, <1>2, KeyTypes
<1>4. DOMAIN keys' = DOMAIN keys
  BY <1>2
<1>5. keys' \in Seq(KeyRecord)
  <2>1. keys' \in [1..Len(keys) -> KeyRecord]
    BY <1>1, <1>2, <1>3
  <2> QED
    BY <1>1, <2>1
<1>6. \A g \in Host : Key(g).host = g /\ DeadKey(g).host = g
  BY DEF Key, DeadKey
<1>7. ASSUME NEW i \in DOMAIN keys, NEW g \in Host
      PROVE  /\ keys'[i] = Key(g) <=> g # h /\ keys[i] = Key(g)
             /\ keys'[i] = DeadKey(g) => g = h \/ keys[i] = DeadKey(g)
  BY <1>3, <1>6, KeyTypes
<1>8. ASSUME NEW g \in Host
      PROVE  /\ Key(g) \in Range(keys') => g # h /\ Key(g) \in Range(keys)
             /\ DeadKey(g) \in Range(keys') => g = h \/ DeadKey(g) \in Range(keys)
  BY <1>4, <1>7 DEF Range
<1>9. ASSUME NEW g \in Host PROVE HoldsElection(g)' <=> g # h /\ HoldsElection(g)
  <2>1. /\ keys = <<>> <=> keys' = <<>>
        /\ keys # <<>> => 1 \in DOMAIN keys /\ Head(keys) = keys[1] /\ Head(keys') = keys'[1]
    BY <1>1, <1>4, <1>5
  <2>2. HoldsElection(g)' <=> keys' # <<>> /\ Head(keys') = Key(g)
    BY DEF HoldsElection, Key
  <2>3. HoldsElection(g) <=> keys # <<>> /\ Head(keys) = Key(g)
    BY DEF HoldsElection
  <2> QED
    BY <1>7, <2>1, <2>2, <2>3
<1> QED
  BY <1>5, <1>8, <1>9

(***************************************************************************)
(* The rotation of the strategy and the hosts it picks                     *)
(***************************************************************************)

\* a list without repetitions is as long as it has elements
LEMMA Length ==
    ASSUME NEW T, NEW s \in Seq(T), IsInjective(s)
    PROVE  IsFiniteSet(Range(s)) /\ Cardinality(Range(s)) = Len(s)
<1>1. s \in Bijection(1..Len(s), Range(s))
  BY DEF Bijection, Injection, Surjection, IsInjective, Range
<1>2. IsFiniteSet(1..Len(s)) /\ Cardinality(1..Len(s)) = Len(s)
  <2>1. Len(s) \in Nat
    OBVIOUS
  <2> QED
    BY <2>1, FS_Interval
<1> QED
  BY <1>1, <1>2, FS_Bijection DEF ExistsBijection

LEMMA Minimum ==
    ASSUME NEW a \in Nat, NEW b \in Nat
    PROVE  Min({a, b}) = IF a <= b THEN a ELSE b
  BY DEF Min

\* what is picked of a rotation
LEMMA Picked ==
    ASSUME NEW s \in Seq(Host), IsInjective(s)
    PROVE  LET hosts == {s[i] : i \in 1..Min({MaxCount, Len(s)})}
           IN  /\ hosts = First(s) /\ hosts \subseteq Range(s)
               /\ Cardinality(hosts) = Min({MaxCount, Cardinality(Range(s))})
               /\ Cardinality(hosts) <= MaxCount
<1> DEFINE m == Min({MaxCount, Len(s)})
           hosts == {s[i] : i \in 1..m}
           t == [i \in 1..m |-> s[i]]
<1>1. /\ MaxCount \in Nat /\ Len(s) \in Nat /\ DOMAIN s = 1..Len(s)
      /\ m = IF MaxCount <= Len(s) THEN MaxCount ELSE Len(s)
  BY SchedulerAssumption, Minimum
<1> HIDE DEF m
<1>2. /\ m \in Nat /\ m <= MaxCount
      /\ \A i \in 1..m : i \in DOMAIN s /\ i <= MaxCount
      /\ \A i \in DOMAIN s : i <= MaxCount => i \in 1..m
  <2>1. CASE MaxCount <= Len(s)
    <3>1. m = MaxCount
      BY <1>1, <2>1
    <3> QED
      BY <1>1, <2>1, <3>1
  <2>2. CASE ~(MaxCount <= Len(s))
    <3>1. m = Len(s) /\ Len(s) < MaxCount
      BY <1>1, <2>2
    <3>2. 1..m = DOMAIN s
      BY <1>1, <3>1
    <3>3. m \in Nat /\ MaxCount \in Nat /\ m < MaxCount
      BY <1>1, <3>1
    <3>4. \A i \in 1..m : i <= MaxCount
      BY <3>3
    <3> QED
      BY <3>2, <3>3, <3>4
  <2> QED
    BY <2>1, <2>2
<1>3. hosts = First(s) /\ hosts \subseteq Range(s)
  BY <1>1, <1>2 DEF First, Range
<1>4. t \in Seq(Host) /\ Len(t) = m /\ IsInjective(t) /\ Range(t) = hosts
  <2>1. \A i \in 1..m : i \in DOMAIN s /\ s[i] \in Host
    <3>1. \A i \in DOMAIN s : s[i] \in Host
      OBVIOUS
    <3> QED
      BY <1>2, <3>1
  <2>2. t \in [1..m -> Host]
    BY <2>1
  <2>3. t \in Seq(Host) /\ Len(t) = m /\ DOMAIN t = 1..m
    BY <1>2, <2>2
  <2> QED
    BY <2>1, <2>3 DEF IsInjective, Range
<1>5. Cardinality(hosts) = m /\ Cardinality(Range(s)) = Len(s)
  BY <1>4, Length
<1> QED
  BY <1>2, <1>3, <1>5 DEF m

LEMMA SortedFacts ==
    ASSUME NEW S \in SUBSET Host
    PROVE  Sorted(S) \in Seq(Host) /\ IsInjective(Sorted(S)) /\ Range(Sorted(S)) = S
<1>1. Order \in Seq(Host) /\ Range(Order) = Host /\ IsInjective(Order)
  BY SchedulerAssumption
<1>2. /\ Filter(Order, S) \in Seq(Host) /\ Range(Filter(Order, S)) = Range(Order) \cap S
      /\ IsInjective(Filter(Order, S))
  BY <1>1, Filtered
<1> QED
  BY <1>1, <1>2 DEF Sorted

\* the strategy starts from a list that begins with the decision, if it has no
\* memory of its own
LEMMA KnownFacts ==
    ASSUME TypeOK, Cardinality(schedule) <= MaxCount, NEW h \in Host
    PROVE  /\ Known(h) \in Seq(Host) /\ IsInjective(Known(h))
           /\ cache[h] = <<>> => schedule \subseteq First(Known(h))
<1>1. cache[h] \in Seq(Host) /\ IsInjective(cache[h]) /\ schedule \in SUBSET Host
  BY DEF TypeOK
<1>2. CASE cache[h] # <<>>
  BY <1>1, <1>2 DEF Known
<1>3. CASE cache[h] = <<>>
  <2>1. Known(h) = Sorted(schedule)
    BY <1>3 DEF Known
  <2>2. /\ Known(h) \in Seq(Host) /\ IsInjective(Known(h)) /\ Range(Known(h)) = schedule
    BY <1>1, <2>1, SortedFacts
  <2>3. Len(Known(h)) <= MaxCount
    BY <2>2, Length
  <2>4. \A i \in DOMAIN Known(h) : i <= MaxCount
    BY <2>2, <2>3, SchedulerAssumption
  <2> QED
    BY <2>2, <2>4 DEF First, Range
<1> QED
  BY <1>2, <1>3

\* the rotation has those that vote, each once, and none of them moves back
LEMMA Rotations ==
    ASSUME TypeOK, Cardinality(schedule) <= MaxCount, NEW h \in Host
    PROVE  /\ Rotation(h) \in Seq(Host) /\ IsInjective(Rotation(h))
           /\ Range(Rotation(h)) = snap[h]
           /\ schedule \subseteq First(Known(h)) =>
                schedule \cap snap[h] \subseteq First(Rotation(h))
<1> DEFINE known == Known(h)
           kept == Filter(known, snap[h])
           new == Sorted(snap[h] \ Range(known))
           all == kept \o new
<1>1. snap[h] \in SUBSET Host /\ known \in Seq(Host) /\ IsInjective(known)
  BY KnownFacts DEF TypeOK
<1>2. new \in Seq(Host) /\ IsInjective(new) /\ Range(new) = snap[h] \ Range(known)
  BY <1>1, SortedFacts
<1>3. Rotation(h) = all
  BY DEF Rotation
<1>4. /\ kept \in Seq(Host) /\ IsInjective(kept) /\ Range(kept) = Range(known) \cap snap[h]
      /\ \A i \in DOMAIN known : known[i] \in snap[h] =>
           \E k \in 1..i : k \in DOMAIN kept /\ kept[k] = known[i]
  BY <1>1, Filtered
<1> HIDE DEF known, kept, new
<1>5. /\ all \in Seq(Host) /\ DOMAIN all = 1..Len(kept) + Len(new)
      /\ Len(kept) \in Nat /\ Len(new) \in Nat
      /\ DOMAIN kept = 1..Len(kept) /\ DOMAIN new = 1..Len(new)
      /\ \A i \in DOMAIN kept : i \in DOMAIN all /\ all[i] = kept[i]
      /\ \A i \in DOMAIN all : i \notin DOMAIN kept =>
             i - Len(kept) \in DOMAIN new /\ all[i] = new[i - Len(kept)]
      /\ \A i \in DOMAIN new : i + Len(kept) \in DOMAIN all /\ all[i + Len(kept)] = new[i]
  BY <1>2, <1>4
<1> HIDE DEF all
<1>6. /\ \A i \in DOMAIN kept : kept[i] \in Range(known) /\ kept[i] \in snap[h]
      /\ \A i \in DOMAIN new : new[i] \notin Range(known) /\ new[i] \in snap[h]
  BY <1>2, <1>4 DEF Range
<1>7. IsInjective(all)
  <2>1. ASSUME NEW i \in DOMAIN all, NEW j \in DOMAIN all, all[i] = all[j] PROVE i = j
    <3>1. CASE i \in DOMAIN kept /\ j \in DOMAIN kept
      BY <1>4, <1>5, <2>1, <3>1 DEF IsInjective
    <3>2. CASE i \notin DOMAIN kept /\ j \notin DOMAIN kept
      <4>1. i - Len(kept) = j - Len(kept)
        BY <1>2, <1>5, <2>1, <3>2 DEF IsInjective
      <4> QED
        BY <1>5, <4>1
    <3>3. i \in DOMAIN kept <=> j \in DOMAIN kept
      BY <1>5, <1>6, <2>1
    <3> QED
      BY <3>1, <3>2, <3>3
  <2> QED
    BY <2>1 DEF IsInjective
<1>8. Range(all) = snap[h]
  <2>1. ASSUME NEW i \in DOMAIN all PROVE all[i] \in snap[h]
    BY <1>5, <1>6
  <2>2. ASSUME NEW x \in snap[h] PROVE \E i \in DOMAIN all : all[i] = x
    <3>1. CASE x \in Range(known)
      <4>1. PICK i \in DOMAIN kept : kept[i] = x
        BY <1>4, <3>1 DEF Range
      <4> QED
        BY <1>5, <4>1
    <3>2. CASE x \notin Range(known)
      <4>1. PICK i \in DOMAIN new : new[i] = x
        BY <1>2, <3>2 DEF Range
      <4> QED
        BY <1>5, <4>1
    <3> QED
      BY <3>1, <3>2
  <2> QED
    BY <2>1, <2>2 DEF Range
<1>9. ASSUME schedule \subseteq First(known), NEW x \in schedule \cap snap[h]
      PROVE  x \in First(all)
  <2>1. PICK i \in DOMAIN known : i <= MaxCount /\ known[i] = x
    BY <1>9 DEF First
  <2>2. PICK k \in 1..i : k \in DOMAIN kept /\ kept[k] = x
    BY <1>4, <1>9, <2>1
  <2>3. k \in DOMAIN all /\ all[k] = x
    BY <1>5, <2>2
  <2>4. i \in Nat /\ MaxCount \in Nat /\ k <= MaxCount
    BY <1>1, <2>1, <2>2, SchedulerAssumption
  <2> QED
    BY <2>3, <2>4 DEF First
<1> QED
  BY <1>3, <1>5, <1>7, <1>8, <1>9 DEF known

(***************************************************************************)
(* What a step leaves as it is, of a host and of all                       *)
(***************************************************************************)

LEMMA OneHolder ==
    ASSUME NEW g \in Host, NEW h \in Host, HoldsElection(g), HoldsElection(h)
    PROVE  g = h
  BY KeyTypes DEF HoldsElection

LEMMA LeaderFacts ==
    ASSUME TypeOK, keys # <<>>, NEW h \in Host
    PROVE  /\ Leader \in Host
           /\ Leader = h => HoldsElection(h) \/ DeadKey(h) \in Range(keys)
           /\ HoldsElection(h) => Leader = h
<1>1. Head(keys) \in KeyRecord /\ Head(keys) \in Range(keys)
  BY HeadFacts DEF TypeOK, KeyRecord
<1>2. Leader = Head(keys).host
  BY DEF Leader
<1>3. PICK x \in Host, b \in BOOLEAN : Head(keys) = [host |-> x, live |-> b]
  BY <1>1 DEF KeyRecord
<1>4. x = h => Head(keys) = Key(h) \/ Head(keys) = DeadKey(h)
  BY <1>3 DEF Key, DeadKey
<1>5. HoldsElection(h) <=> Head(keys) = Key(h)
  BY DEF HoldsElection
<1>6. Head(keys) = Key(h) => x = h
  BY <1>3 DEF Key
<1> QED
  BY <1>1, <1>2, <1>3, <1>4, <1>5, <1>6

\* who gets the election without having it has not been told yet
LEMMA Successor ==
    ASSUME IInv, NEW g \in Host, Key(g) \in Range(keys), ~HoldsElection(g)
    PROVE  g \in Looping /\ g \notin lost /\ elected[g] # g
  BY DEF IInv, Candidate

LEMMA OtherCandidate ==
    ASSUME IInv, NEW g \in Host,
           campaign'[g] = campaign[g], startup'[g] = startup[g], elected'[g] = elected[g],
           g \in lost' <=> g \in lost, loop'[g] = loop[g],
           Key(g) \in Range(keys') => Key(g) \in Range(keys),
           DeadKey(g) \in Range(keys') => DeadKey(g) \in Range(keys),
           HoldsElection(g) => HoldsElection(g)'
    PROVE  Candidate(g)'
<1>1. g \in Looping' <=> g \in Looping
  BY DEF Looping
<1>2. Key(g)' = Key(g) /\ DeadKey(g)' = DeadKey(g)
  BY DEF Key, DeadKey
<1> QED
  BY <1>1, <1>2 DEF IInv, Candidate

LEMMA OtherRemembers ==
    ASSUME IInv, NEW g \in Host, schedule' = schedule, ~usurped' => ~usurped,
           cache'[g] = cache[g], g \in exited => g \in exited',
           HoldsElection(g)' => HoldsElection(g) \/ (g \in Looping /\ g \notin lost),
           HoldsElection(g) => HoldsElection(g)' \/ g \in lost' \/ loop'[g] \in {"exit", "die"},
           g \in lost => g \in lost' \/ loop'[g] \in {"exit", "die"},
           loop[g] \in {"exit", "die"} => loop'[g] = loop[g] \/ g \in exited'
    PROVE  Remembers(g)'
<1>1. loop[g] \in {"exit", "die"} => g \notin Looping
  BY DEF Looping
<1>2. First(cache[g])' = First(cache[g])
  BY DEF First
<1> QED
  BY <1>1, <1>2 DEF IInv, Remembers

LEMMA OtherDecides ==
    ASSUME IInv, NEW g \in Host, schedule' = schedule, usurped' = usurped,
           g \in hostEv => g \in hostEv', elected'[g] = elected[g], loop'[g] = loop[g],
           snap'[g] = snap[g],
           HoldsElection(g)' => HoldsElection(g) \/ elected[g] # g,
           Voters' = Voters \/ g \notin Watching \/ g \in hostEv'
    PROVE  Decides(g)'
<1>1. Leads(g)' => Leads(g) /\ g \in Watching
  BY DEF Leads, Looping, Watching
<1>2. Voters' = Voters => Fits' = Fits
  BY DEF Fits
<1> QED
  BY <1>1, <1>2 DEF IInv, Decides

LEMMA VoteChange ==
    ASSUME NEW h \in Host, NEW v \in {"none", "leased", "orphan", "forever"},
           TypeOK, SetVote(h, v)
    PROVE  /\ vote' \in [Host -> {"none", "leased", "orphan", "forever"}]
           /\ hostEv' \subseteq Host /\ hostEv \subseteq hostEv'
           /\ vote'[h] = v /\ \A g \in Host : g # h => vote'[g] = vote[g]
           /\ Voters' = Voters \/ Watching \subseteq hostEv'
<1>1. Watching \subseteq Host
  BY DEF Watching, Looping
<1>2. v = vote[h] => vote' = vote
  BY DEF SetVote, TypeOK
<1> QED
  BY <1>1, <1>2 DEF SetVote, TypeOK, Voters

\* a step that may change a vote, and nothing of the election or a scheduler
LEMMA SchedulersStay ==
    ASSUME IInv, UNCHANGED <<electionVars, loop, schedule, snap, cache, exited, usurped>>,
           hostEv \subseteq hostEv', Voters' = Voters \/ Watching \subseteq hostEv'
    PROVE  /\ Cardinality(schedule') <= MaxCount
           /\ \A g \in Host : Candidate(g)' /\ Remembers(g)' /\ Decides(g)'
<1> USE DEF electionVars
<1>1. \A g \in Host : HoldsElection(g)' = HoldsElection(g)
  BY AfterNothing
<1>2. ASSUME NEW g \in Host PROVE Candidate(g)'
  BY <1>1, OtherCandidate
<1>3. ASSUME NEW g \in Host PROVE Remembers(g)'
  BY <1>1, OtherRemembers
<1>4. ASSUME NEW g \in Host PROVE Decides(g)'
  BY <1>1, OtherDecides
<1> QED
  BY <1>2, <1>3, <1>4 DEF IInv

\* what is left to show of such a step
LEMMA ResourceStep ==
    ASSUME IInv, UNCHANGED <<electionVars, loop, schedule, snap, cache, exited, usurped>>,
           hostEv \subseteq hostEv', Voters' = Voters \/ Watching \subseteq hostEv',
           TypeOK', \A g \in Host : Owns(g)'
    PROVE  IInv'
  BY SchedulersStay DEF IInv

USE DEF etcdVars, leaderVars, apparatusVars, resVars, boundVars, historyVars

(***************************************************************************)
(* The schedule resource and the swap of the graph                         *)
(***************************************************************************)

LEMMA SchedulerAddKeeps ==
    ASSUME NEW h \in Host, IInv, SchedulerAdd(h)
    PROVE  IInv'
<1>1. /\ vote' \in [Host -> {"none", "leased", "orphan", "forever"}]
      /\ hostEv' \subseteq Host /\ hostEv \subseteq hostEv'
      /\ \A g \in Host : g # h => vote'[g] = vote[g]
      /\ Voters' = Voters \/ Watching \subseteq hostEv'
  <2>1. Vote(h) \in {"none", "leased", "forever"}
    BY DEF Vote
  <2> QED
    BY <2>1, VoteChange DEF SchedulerAdd, IInv
<1>2. TypeOK'
  BY <1>1 DEF IInv, TypeOK, SchedulerAdd, electionVars
<1>3. ASSUME NEW g \in Host PROVE Owns(g)'
  <2>1. CASE g = h
    BY <1>1, <2>1 DEF IInv, TypeOK, SchedulerAdd, Owns
  <2>2. CASE g # h
    BY <1>1, <2>2 DEF IInv, TypeOK, SchedulerAdd, Owns
  <2> QED
    BY <2>1, <2>2
<1> QED
  BY <1>1, <1>2, <1>3, ResourceStep DEF SchedulerAdd

LEMMA NewSessionFailsKeeps ==
    ASSUME NEW h \in Host, IInv, NewSessionFails(h)
    PROVE  IInv'
<1>1. TypeOK'
  BY SchedulerAssumption DEF IInv, TypeOK, NewSessionFails, Fault, electionVars
<1>2. ASSUME NEW g \in Host PROVE Owns(g)'
  BY DEF IInv, TypeOK, NewSessionFails, Owns
<1>3. Voters' = Voters
  BY DEF Voters, NewSessionFails
<1> QED
  BY <1>1, <1>2, <1>3, ResourceStep DEF NewSessionFails

LEMMA SchedulerWithdrawKeeps ==
    ASSUME NEW h \in Host, IInv, SchedulerWithdraw(h)
    PROVE  IInv'
<1>1. /\ vote' \in [Host -> {"none", "leased", "orphan", "forever"}]
      /\ hostEv' \subseteq Host /\ hostEv \subseteq hostEv'
      /\ vote'[h] = "none" /\ \A g \in Host : g # h => vote'[g] = vote[g]
      /\ Voters' = Voters \/ Watching \subseteq hostEv'
  BY VoteChange DEF SchedulerWithdraw, Vote, IInv
<1>2. TypeOK'
  BY <1>1 DEF IInv, TypeOK, SchedulerWithdraw, electionVars
<1>3. ASSUME NEW g \in Host PROVE Owns(g)'
  <2>1. vote'[g] = "leased" => vote[g] = "leased"
    BY <1>1
  <2> QED
    BY <2>1 DEF IInv, SchedulerWithdraw, Owns
<1> QED
  BY <1>1, <1>2, <1>3, ResourceStep DEF SchedulerWithdraw

LEMMA TxnFailsKeeps ==
    ASSUME NEW h \in Host, IInv, TxnFails(h)
    PROVE  IInv'
<1>1. /\ swap[h] = "no" /\ res[h] # "none" /\ faults' \in 0..MaxFaults
      /\ session' \in [Host -> {"none", "open", "done"}]
      /\ UNCHANGED <<electionVars, schedule, loop, leaderVars, requests, exited, stuck, resVars,
                     swaps, historyVars>>
  <2>1. faults' \in 0..MaxFaults
    BY SchedulerAssumption DEF TxnFails, Fault, IInv, TypeOK
  <2>2. session' = [session EXCEPT ![h] = "open"] \/ session' = session
    BY DEF TxnFails
  <2>3. session' \in [Host -> {"none", "open", "done"}]
    BY <2>2 DEF IInv, TypeOK
  <2> QED
    BY <2>1, <2>3 DEF TxnFails
<1>2. /\ vote' \in [Host -> {"none", "leased", "orphan", "forever"}]
      /\ hostEv' \subseteq Host /\ hostEv \subseteq hostEv'
      /\ \A g \in Host : g # h => vote'[g] = vote[g]
      /\ Voters' = Voters \/ Watching \subseteq hostEv'
  <2>1. CASE UNCHANGED <<vote, hostEv>>
    BY <2>1 DEF IInv, TypeOK, Voters
  <2>2. CASE SetVote(h, Vote(h))
    <3>1. Vote(h) \in {"none", "leased", "forever"}
      BY DEF Vote
    <3> QED
      BY <2>2, <3>1, VoteChange DEF IInv
  <2> QED
    BY <2>1, <2>2 DEF TxnFails
<1>3. TypeOK'
  BY <1>1, <1>2 DEF IInv, TypeOK, electionVars
<1>4. ASSUME NEW g \in Host PROVE Owns(g)'
  <2>1. CASE g = h
    BY <1>1, <1>2, <2>1 DEF IInv, TypeOK, Owns
  <2>2. CASE g # h
    BY <1>1, <1>2, <2>2 DEF IInv, TypeOK, Owns
  <2> QED
    BY <2>1, <2>2
<1> QED
  BY <1>1, <1>2, <1>3, <1>4, ResourceStep

LEMMA SwapKeeps ==
    ASSUME NEW h \in Host, NEW r \in {"none", "add", "withdraw"}, IInv, Swap(h, r)
    PROVE  IInv'
<1>1. TypeOK'
  <2>1. swaps' \in 0..MaxSwaps
    BY SchedulerAssumption DEF IInv, TypeOK, Swap
  <2> QED
    BY <2>1 DEF IInv, TypeOK, Swap, electionVars
<1>2. ASSUME NEW g \in Host PROVE Owns(g)'
  <2>1. CASE g = h
    BY <2>1 DEF IInv, TypeOK, Swap, Owns
  <2>2. CASE g # h
    BY <2>2 DEF IInv, TypeOK, Swap, Owns
  <2> QED
    BY <2>1, <2>2
<1>3. Voters' = Voters
  BY DEF Voters, Swap
<1> QED
  BY <1>1, <1>2, <1>3, ResourceStep DEF Swap

LEMMA CleanupFacts ==
    ASSUME NEW h \in Host, IInv, SchedulerCleanup(h)
    PROVE  /\ vote' \in [Host -> {"none", "leased", "orphan", "forever"}]
           /\ hostEv' \subseteq Host /\ hostEv \subseteq hostEv'
           /\ \A g \in Host : vote'[g] = "leased" => vote[g] = "leased"
           /\ Voters' = Voters \/ Watching \subseteq hostEv'
           /\ session' \in [Host -> {"none", "open", "done"}] /\ requests' \subseteq Host
<1>1. CASE UNCHANGED <<vote, hostEv, session>> /\ requests' \in {requests, requests \cup {h}}
  BY <1>1 DEF IInv, TypeOK, Voters
<1>2. CASE /\ session' = [session EXCEPT ![h] = "none"] /\ requests' = requests
           /\ SetVote(h, IF vote[h] = "leased" THEN "none" ELSE vote[h])
  <2>1. PICK v \in {"none", "orphan", "forever"} : SetVote(h, v)
    BY <1>2 DEF IInv, TypeOK
  <2>2. /\ vote' \in [Host -> {"none", "leased", "orphan", "forever"}]
        /\ hostEv' \subseteq Host /\ hostEv \subseteq hostEv'
        /\ vote'[h] = v /\ \A g \in Host : g # h => vote'[g] = vote[g]
        /\ Voters' = Voters \/ Watching \subseteq hostEv'
    BY <2>1, VoteChange DEF IInv
  <2>3. \A g \in Host : vote'[g] = "leased" => vote[g] = "leased"
    BY <2>2
  <2> QED
    BY <1>2, <2>2, <2>3 DEF IInv, TypeOK
<1> QED
  BY <1>1, <1>2 DEF SchedulerCleanup

LEMMA WatchReturnsKeeps ==
    ASSUME NEW h \in Host, IInv, WatchReturns(h)
    PROVE  IInv'
<1>1. /\ swap[h] = "clean" /\ UNCHANGED <<due, swaps, faults>>
      /\ swap' = [swap EXCEPT ![h] = IF next[h] = "none" THEN "stop" ELSE "enter"]
      /\ UNCHANGED <<electionVars, schedule, loop, snap, cache, exited, stuck, res, next,
                     usurped, voteLost>>
  BY DEF WatchReturns, SchedulerCleanup
<1>2. /\ vote' \in [Host -> {"none", "leased", "orphan", "forever"}]
      /\ hostEv' \subseteq Host /\ hostEv \subseteq hostEv'
      /\ \A g \in Host : vote'[g] = "leased" => vote[g] = "leased"
      /\ Voters' = Voters \/ Watching \subseteq hostEv'
      /\ session' \in [Host -> {"none", "open", "done"}] /\ requests' \subseteq Host
  BY CleanupFacts DEF WatchReturns
<1>3. TypeOK'
  BY <1>1, <1>2 DEF IInv, TypeOK, electionVars
<1>4. ASSUME NEW g \in Host PROVE Owns(g)'
  <2>1. CASE g = h
    BY <1>1, <1>2, <2>1 DEF IInv, TypeOK, Owns
  <2>2. CASE g # h
    BY <1>1, <1>2, <2>2 DEF IInv, TypeOK, Owns
  <2> QED
    BY <2>1, <2>2
<1> QED
  BY <1>1, <1>2, <1>3, <1>4, ResourceStep

LEMMA WatchFailsKeeps ==
    ASSUME NEW h \in Host, IInv, WatchFails(h)
    PROVE  IInv'
<1>1. /\ UNCHANGED <<swap, swaps>> /\ due' \subseteq Host /\ faults' \in 0..MaxFaults
      /\ UNCHANGED <<electionVars, schedule, loop, snap, cache, exited, stuck, res, next,
                     usurped, voteLost>>
  BY SchedulerAssumption DEF WatchFails, SchedulerCleanup, StartupEvent, Fault, IInv, TypeOK
<1>2. /\ vote' \in [Host -> {"none", "leased", "orphan", "forever"}]
      /\ hostEv' \subseteq Host /\ hostEv \subseteq hostEv'
      /\ \A g \in Host : vote'[g] = "leased" => vote[g] = "leased"
      /\ Voters' = Voters \/ Watching \subseteq hostEv'
      /\ session' \in [Host -> {"none", "open", "done"}] /\ requests' \subseteq Host
  BY CleanupFacts DEF WatchFails
<1>3. TypeOK'
  BY <1>1, <1>2 DEF IInv, TypeOK, electionVars
<1>4. ASSUME NEW g \in Host PROVE Owns(g)'
  BY <1>1, <1>2 DEF IInv, Owns
<1> QED
  BY <1>1, <1>2, <1>3, <1>4, ResourceStep

(***************************************************************************)
(* Scheduler                                                               *)
(***************************************************************************)

\* an event makes the elected host look at the votes
LEMMA GetData ==
    ASSUME NEW h \in Host, NEW e \in BOOLEAN, IInv, loop[h] = "wait", getData(h, e),
           UNCHANGED <<vote, schedule>>, e <=> elected'[h] = h
    PROVE  /\ loop' \in [Host -> {"off", "wait", "decide", "exit", "die", "dead"}]
           /\ snap' \in [Host -> SUBSET Host]
           /\ loop'[h] \in {"wait", "decide"} /\ Looping' = Looping
           /\ \A g \in Host : g # h => loop'[g] = loop[g] /\ snap'[g] = snap[g]
           /\ Decides(h)'
<1>1. Voters' = Voters /\ Voters \subseteq Host
  BY DEF Voters
<1>2. CASE e /\ (Voters # {} \/ schedule # {})
  <2>1. /\ loop' = [loop EXCEPT ![h] = "decide"] /\ snap' = [snap EXCEPT ![h] = Voters]
    BY <1>2 DEF getData, Goto
  <2>2. /\ loop' \in [Host -> {"off", "wait", "decide", "exit", "die", "dead"}]
        /\ snap' \in [Host -> SUBSET Host]
        /\ loop'[h] = "decide" /\ snap'[h] = Voters
        /\ \A g \in Host : g # h => loop'[g] = loop[g] /\ snap'[g] = snap[g]
    BY <1>1, <2>1 DEF IInv, TypeOK
  <2>3. Looping' = Looping
    BY <2>2 DEF Looping
  <2> QED
    BY <1>1, <2>2, <2>3 DEF Decides
<1>3. CASE ~(e /\ (Voters # {} \/ schedule # {}))
  <2>1. UNCHANGED <<loop, snap>>
    BY <1>3 DEF getData
  <2>2. e => Fits
    <3>1. Cardinality({}) = 0 /\ Min({MaxCount, 0}) = 0
      BY FS_EmptySet, SchedulerAssumption, Minimum
    <3> QED
      BY <1>3, <3>1 DEF Fits
  <2>3. Fits' = Fits /\ Looping' = Looping
    BY <1>1, <2>1 DEF Fits, Looping
  <2> QED
    BY <2>1, <2>2, <2>3 DEF IInv, TypeOK, Decides, Leads
<1> QED
  BY <1>2, <1>3

LEMMA HostnameEventKeeps ==
    ASSUME NEW h \in Host, IInv, HostnameEvent(h)
    PROVE  IInv'
<1> USE DEF HostnameEvent, electionVars
<1>1. /\ loop' \in [Host -> {"off", "wait", "decide", "exit", "die", "dead"}]
      /\ snap' \in [Host -> SUBSET Host] /\ loop'[h] \in {"wait", "decide"}
      /\ \A g \in Host : g # h => loop'[g] = loop[g] /\ snap'[g] = snap[g]
      /\ Looping' = Looping /\ Decides(h)'
  BY GetData
<1>2. TypeOK'
  BY <1>1 DEF IInv, TypeOK
<1>3. /\ Voters' = Voters /\ Range(keys') = Range(keys)
      /\ \A g \in Host : HoldsElection(g)' = HoldsElection(g)
  BY AfterNothing DEF Voters
<1>4. ASSUME NEW g \in Host PROVE Candidate(g)'
  <2>1. Key(g)' = Key(g) /\ DeadKey(g)' = DeadKey(g)
    BY DEF Key, DeadKey
  <2> QED
    BY <1>1, <1>3, <2>1 DEF IInv, Candidate
<1>5. ASSUME NEW g \in Host PROVE Remembers(g)'
  BY <1>1, <1>3, OtherRemembers
<1>6. ASSUME NEW g \in Host, g # h PROVE Decides(g)'
  BY <1>1, <1>3, <1>6, OtherDecides
<1>7. ASSUME NEW g \in Host PROVE Owns(g)'
  BY <1>1 DEF IInv, Owns
<1> QED
  BY <1>1, <1>2, <1>4, <1>5, <1>6, <1>7 DEF IInv

LEMMA ElectionEventKeeps ==
    ASSUME NEW h \in Host, IInv, ElectionEvent(h)
    PROVE  IInv'
<1>1. PICK x \in Host :
        /\ elected' = [elected EXCEPT ![h] = x]
        /\ campaign' = [campaign EXCEPT ![h] = CampaignAfter(h, x)]
        /\ startup' = [startup EXCEPT ![h] = None]
        /\ (x = startup[h] /\ campaign[h] = "nil") \/ (keys # <<>> /\ x = Leader)
        /\ leaderEv' \subseteq leaderEv /\ UNCHANGED <<keys, lost>>
  <2>1. CASE TellStartup(h)
    <3>1. startup[h] \in Host /\ campaign[h] = "nil"
      BY <2>1 DEF TellStartup, IInv, TypeOK, Candidate
    <3> QED
      BY <2>1, <3>1 DEF TellStartup, Tell
  <2>2. CASE TellLeader(h)
    BY <2>2, LeaderFacts DEF TellLeader, Tell, IInv
  <2> QED
    BY <2>1, <2>2 DEF ElectionEvent
<1>2. /\ loop[h] = "wait" /\ getData(h, elected'[h] = h)
      /\ cache' = [cache EXCEPT ![h] = Invalidated(h)]
      /\ UNCHANGED <<vote, schedule, hostEv, session, requests, exited, stuck, res, next, swap,
                     due, swaps, faults, usurped, voteLost>>
  BY DEF ElectionEvent
<1>3. /\ loop' \in [Host -> {"off", "wait", "decide", "exit", "die", "dead"}]
      /\ snap' \in [Host -> SUBSET Host] /\ loop'[h] \in {"wait", "decide"}
      /\ \A g \in Host : g # h => loop'[g] = loop[g] /\ snap'[g] = snap[g]
      /\ Looping' = Looping /\ Decides(h)'
  BY <1>2, GetData
<1>4. /\ elected'[h] = x /\ campaign'[h] = CampaignAfter(h, x) /\ startup'[h] = None
      /\ \A g \in Host : g # h => /\ elected'[g] = elected[g] /\ campaign'[g] = campaign[g]
                                  /\ startup'[g] = startup[g]
      /\ elected' \in [Host -> Host \cup {None}] /\ startup' \in [Host -> Host \cup {None}]
      /\ campaign' \in [Host -> {"off", "nil", "put", "wait", "done"}]
  BY <1>1 DEF IInv, TypeOK, CampaignAfter
<1>5. /\ cache'[h] \in {<<>>, cache[h]} /\ \A g \in Host : g # h => cache'[g] = cache[g]
      /\ cache' \in [Host -> Seq(Host)] /\ \A g \in Host : IsInjective(cache'[g])
  <2>1. Invalidated(h) \in {<<>>, cache[h]} /\ IsInjective(<<>>) /\ <<>> \in Seq(Host)
    BY DEF Invalidated, IsInjective
  <2> QED
    BY <1>2, <2>1 DEF IInv, TypeOK
<1>6. TypeOK'
  BY <1>1, <1>2, <1>3, <1>4, <1>5 DEF IInv, TypeOK
<1>7. /\ Voters' = Voters /\ Range(keys') = Range(keys)
      /\ \A g \in Host : HoldsElection(g)' = HoldsElection(g)
  BY <1>1, <1>2, AfterNothing DEF Voters
<1>8. ASSUME NEW g \in Host, g # h PROVE Candidate(g)'
  BY <1>1, <1>3, <1>4, <1>7, <1>8, OtherCandidate
<1>9. Candidate(h)'
  <2>1. Key(h)' = Key(h) /\ DeadKey(h)' = DeadKey(h)
    BY DEF Key, DeadKey
  <2>2. HoldsElection(h) => campaign[h] # "nil" /\ keys # <<>> /\ Leader = h
    BY Held, LeaderFacts DEF IInv, Candidate, HoldsElection
  <2>3. h \in Looping /\ campaign[h] # "off" /\ Candidate(h)
    BY <1>2 DEF Looping, IInv, Candidate
  <2>4. campaign'[h] # campaign[h] => campaign[h] = "done" /\ campaign'[h] = "put" /\ h \in lost
    BY <1>1, <1>4, <2>2, <2>3 DEF CampaignAfter, Candidate
  <2>5. x = h => campaign'[h] = campaign[h] /\ (HoldsElection(h) \/ campaign[h] = "nil")
    <3>1. CASE keys # <<>> /\ x = Leader
      BY <1>4, <2>3, <3>1, LeaderFacts DEF CampaignAfter, Candidate, IInv
    <3>2. CASE x = startup[h] /\ campaign[h] = "nil"
      BY <1>4, <3>2 DEF CampaignAfter
    <3> QED
      BY <1>1, <3>1, <3>2
  <2>6. x # None
    BY NoneAssumption
  <2>7. CASE campaign'[h] = campaign[h]
    BY <1>1, <1>3, <1>4, <1>7, <2>1, <2>3, <2>5, <2>7 DEF Candidate
  <2>8. CASE campaign'[h] # campaign[h]
    BY <1>1, <1>3, <1>4, <1>7, <2>1, <2>3, <2>4, <2>5, <2>8 DEF Candidate
  <2> QED
    BY <2>7, <2>8
<1>10. ASSUME NEW g \in Host PROVE Remembers(g)'
  <2>1. CASE cache'[g] = cache[g]
    BY <1>1, <1>2, <1>3, <1>7, <2>1, OtherRemembers
  <2>2. CASE cache'[g] = <<>>
    BY <2>2 DEF Remembers
  <2> QED
    BY <1>5, <2>1, <2>2
<1>11. ASSUME NEW g \in Host, g # h PROVE Decides(g)'
  BY <1>2, <1>3, <1>4, <1>7, <1>11, OtherDecides
<1>12. ASSUME NEW g \in Host PROVE Owns(g)'
  BY <1>2, <1>3 DEF IInv, Owns
<1> QED
  BY <1>2, <1>3, <1>6, <1>8, <1>9, <1>10, <1>11, <1>12 DEF IInv

LEMMA doScheduledKeeps ==
    ASSUME NEW h \in Host, IInv, doScheduled(h)
    PROVE  IInv'
<1> DEFINE rotation == Rotation(h)
           hosts == {rotation[i] : i \in 1..Min({MaxCount, Len(rotation)})}
<1>1. /\ loop[h] = "decide" /\ loop' = [loop EXCEPT ![h] = "wait"]
      /\ cache' = [cache EXCEPT ![h] = IF snap[h] = {} THEN @ ELSE rotation]
      /\ snap' = [snap EXCEPT ![h] = {}] /\ schedule' = hosts
      /\ due' = IF hosts = schedule THEN due ELSE due \cup Unsettled
      /\ usurped' = (usurped \/ ~HoldsElection(h))
      /\ UNCHANGED <<electionVars, vote, hostEv, session, requests, exited, stuck, res, next,
                     swap, swaps, faults, voteLost>>
  BY DEF doScheduled, Goto
<1>2. /\ rotation \in Seq(Host) /\ IsInjective(rotation) /\ Range(rotation) = snap[h]
  BY Rotations DEF IInv
<1> HIDE DEF rotation
<1>3. /\ hosts = First(rotation) /\ hosts \subseteq snap[h]
      /\ Cardinality(hosts) = Min({MaxCount, Cardinality(snap[h])})
      /\ Cardinality(hosts) <= MaxCount
  BY <1>2, Picked
<1> HIDE DEF hosts
<1>4. /\ loop' \in [Host -> {"off", "wait", "decide", "exit", "die", "dead"}]
      /\ snap' \in [Host -> SUBSET Host] /\ loop'[h] = "wait"
      /\ cache' \in [Host -> Seq(Host)] /\ \A g \in Host : IsInjective(cache'[g])
      /\ cache'[h] = IF snap[h] = {} THEN cache[h] ELSE rotation
      /\ snap[h] \subseteq Host
      /\ \A g \in Host : g # h => /\ loop'[g] = loop[g] /\ snap'[g] = snap[g]
                                  /\ cache'[g] = cache[g]
  BY <1>1, <1>2 DEF IInv, TypeOK
<1>5. TypeOK'
  <2>1. Unsettled \subseteq Host
    BY DEF Unsettled
  <2>2. due' \subseteq Host /\ schedule' \subseteq Host /\ usurped' \in BOOLEAN
    BY <1>1, <1>3, <1>4, <2>1 DEF IInv, TypeOK
  <2> QED
    BY <1>1, <1>4, <2>2 DEF IInv, TypeOK, electionVars
<1>6. /\ Voters' = Voters /\ Range(keys') = Range(keys) /\ Looping' = Looping
      /\ \A g \in Host : HoldsElection(g)' = HoldsElection(g)
  BY <1>1, <1>4, AfterNothing DEF Voters, Looping, electionVars
<1>7. ASSUME NEW g \in Host PROVE Candidate(g)'
  <2>1. Key(g)' = Key(g) /\ DeadKey(g)' = DeadKey(g)
    BY DEF Key, DeadKey
  <2> QED
    BY <1>1, <1>6, <2>1 DEF IInv, Candidate, electionVars
<1>8. ASSUME NEW g \in Host PROVE Remembers(g)'
  <2> SUFFICES ASSUME cache'[g] # <<>>, g \notin exited, ~usurped, HoldsElection(h)
               PROVE  /\ HoldsElection(g)' \/ g \in lost' \/ loop'[g] \in {"exit", "die"}
                      /\ HoldsElection(g)' => schedule' \subseteq First(cache'[g])
    BY <1>1 DEF Remembers, First
  <2>1. CASE g = h
    <3>1. CASE snap[h] = {}
      BY <1>1, <1>3, <1>6, <2>1, <3>1
    <3>2. CASE snap[h] # {}
      BY <1>1, <1>3, <1>4, <1>6, <2>1, <3>2
    <3> QED
      BY <3>1, <3>2
  <2>2. CASE g # h
    BY <1>1, <1>4, <1>6, <2>2, OneHolder DEF IInv, Remembers, electionVars
  <2> QED
    BY <2>1, <2>2
<1>9. ASSUME NEW g \in Host PROVE Decides(g)'
  <2> SUFFICES ASSUME Leads(g), g \notin hostEv
               PROVE  /\ loop'[g] = "wait" /\ ~usurped' => Fits'
                      /\ loop'[g] = "decide" => snap'[g] = Voters
    BY <1>1, <1>6 DEF Decides, Leads, electionVars
  <2>1. CASE g = h
    <3>1. snap[h] = Voters
      BY <1>1, <2>1 DEF IInv, Decides
    <3>2. Fits'
      BY <1>1, <1>3, <1>6, <3>1 DEF Fits
    <3> QED
      BY <1>4, <2>1, <3>2
  <2>2. CASE g # h
    <3>1. usurped'
      BY <1>1, <2>2, OneHolder DEF Leads
    <3> QED
      BY <1>4, <2>2, <3>1 DEF IInv, Decides
  <2> QED
    BY <2>1, <2>2
<1>10. ASSUME NEW g \in Host PROVE Owns(g)'
  <2>1. loop'[g] = loop[g] \/ loop'[g] = "wait"
    BY <1>4
  <2> QED
    BY <1>1, <2>1 DEF IInv, Owns
<1> QED
  BY <1>1, <1>3, <1>5, <1>7, <1>8, <1>9, <1>10 DEF IInv

\* the Observer of a host returns, and with it the host's own key
LEMMA LeaveKeeps ==
    ASSUME NEW h \in Host, NEW how \in {"exit", "die"}, IInv, Leave(h, how), h \in Looping,
           UNCHANGED <<vote, schedule, hostEv, cache, exited, usurped>>
    PROVE  /\ loop' \in [Host -> {"off", "wait", "decide", "exit", "die", "dead"}]
           /\ snap' \in [Host -> SUBSET Host] /\ loop'[h] = how
           /\ \A g \in Host : g # h => loop'[g] = loop[g]
           /\ keys' \in Seq(KeyRecord) /\ leaderEv' \subseteq Host /\ lost' \subseteq Host
           /\ campaign' \in [Host -> {"off", "nil", "put", "wait", "done"}]
           /\ startup' \in [Host -> Host \cup {None}]
           /\ elected' \in [Host -> Host \cup {None}]
           /\ \A g \in Host : Candidate(g)' /\ Remembers(g)' /\ Decides(g)'
<1>1. /\ loop' = [loop EXCEPT ![h] = how] /\ snap' = [snap EXCEPT ![h] = {}]
      /\ keys' = Without(Key(h)) /\ lost' = lost \ {h}
      /\ leaderEv' \in {Observing \ {h}, leaderEv \ {h}}
      /\ campaign' = [campaign EXCEPT ![h] = "off"]
      /\ startup' = [startup EXCEPT ![h] = None]
      /\ elected' = [elected EXCEPT ![h] = None]
  BY DEF Leave, Goto, ObserverReturns
<1>2. /\ loop' \in [Host -> {"off", "wait", "decide", "exit", "die", "dead"}]
      /\ snap' \in [Host -> SUBSET Host]
      /\ campaign' \in [Host -> {"off", "nil", "put", "wait", "done"}]
      /\ startup' \in [Host -> Host \cup {None}] /\ elected' \in [Host -> Host \cup {None}]
      /\ loop'[h] = how /\ campaign'[h] = "off" /\ startup'[h] = None /\ elected'[h] = None
      /\ \A g \in Host : g # h =>
           /\ loop'[g] = loop[g] /\ snap'[g] = snap[g] /\ campaign'[g] = campaign[g]
           /\ startup'[g] = startup[g] /\ elected'[g] = elected[g]
           /\ g \in lost' <=> g \in lost
  BY <1>1 DEF IInv, TypeOK
<1>3. leaderEv' \subseteq Host /\ lost' \subseteq Host
  BY <1>1 DEF IInv, TypeOK, Observing
<1>4. /\ keys' \in Seq(KeyRecord) /\ Range(keys') = Range(keys) \ {Key(h)}
      /\ \A g \in Host : /\ HoldsElection(g) /\ Key(g) # Key(h) => HoldsElection(g)'
                         /\ HoldsElection(g)' => Key(g) \in Range(keys) /\ Key(g) # Key(h)
  BY <1>1, AfterRemoval, KeyTypes DEF IInv
<1>5. ASSUME NEW g \in Host, g # h
      PROVE  /\ HoldsElection(g) => HoldsElection(g)'
             /\ HoldsElection(g)' =>
                  HoldsElection(g) \/ (g \in Looping /\ g \notin lost /\ elected[g] # g)
  BY <1>4, <1>5, KeyTypes, Successor
<1>6. ASSUME NEW g \in Host, g # h PROVE Candidate(g)' /\ Remembers(g)' /\ Decides(g)'
  <2>1. Candidate(g)'
    BY <1>2, <1>4, <1>5, <1>6, OtherCandidate
  <2>2. Remembers(g)'
    BY <1>2, <1>5, <1>6, OtherRemembers
  <2>3. Voters' = Voters
    BY DEF Voters
  <2>4. Decides(g)'
    BY <1>2, <1>5, <1>6, <2>3, OtherDecides
  <2> QED
    BY <2>1, <2>2, <2>4
<1>7. ~HoldsElection(h)' /\ h \notin Looping' /\ h \notin lost'
  BY <1>1, <1>2, <1>4 DEF Looping
<1>8. Candidate(h)'
  <2>1. Key(h)' = Key(h) /\ None # h
    BY NoneAssumption DEF Key
  <2> QED
    BY <1>2, <1>4, <1>7, <2>1 DEF Candidate
<1>9. Remembers(h)' /\ Decides(h)'
  BY <1>2, <1>7 DEF Remembers, Decides, Leads
<1> QED
  BY <1>2, <1>3, <1>4, <1>6, <1>8, <1>9

LEMMA DieKeeps ==
    ASSUME NEW h \in Host, IInv, h \in Looping, Die(h), faults' \in 0..MaxFaults
    PROVE  IInv'
<1>1. /\ loop' \in [Host -> {"off", "wait", "decide", "exit", "die", "dead"}]
      /\ snap' \in [Host -> SUBSET Host] /\ loop'[h] = "die"
      /\ \A g \in Host : g # h => loop'[g] = loop[g]
      /\ keys' \in Seq(KeyRecord) /\ leaderEv' \subseteq Host /\ lost' \subseteq Host
      /\ campaign' \in [Host -> {"off", "nil", "put", "wait", "done"}]
      /\ startup' \in [Host -> Host \cup {None}]
      /\ elected' \in [Host -> Host \cup {None}]
      /\ \A g \in Host : Candidate(g)' /\ Remembers(g)' /\ Decides(g)'
  BY LeaveKeeps DEF Die
<1>2. TypeOK'
  BY <1>1 DEF IInv, TypeOK, Die, KeyRecord
<1>3. ASSUME NEW g \in Host PROVE Owns(g)'
  <2>1. loop'[g] = loop[g] \/ loop'[g] = "die"
    BY <1>1
  <2> QED
    BY <2>1 DEF IInv, Owns, Die
<1> QED
  BY <1>1, <1>2, <1>3 DEF IInv, Die

LEMMA SchedulerFailsKeeps ==
    ASSUME NEW h \in Host, IInv, SchedulerFails(h)
    PROVE  IInv'
<1>1. faults' \in 0..MaxFaults
  BY SchedulerAssumption DEF SchedulerFails, Fault, IInv, TypeOK
<1> QED
  BY <1>1, DieKeeps DEF SchedulerFails

LEMMA SchedulerReturnsKeeps ==
    ASSUME NEW h \in Host, IInv, SchedulerReturns(h)
    PROVE  IInv'
<1>1. /\ loop[h] \in {"exit", "die"}
      /\ vote' = [vote EXCEPT ![h] = VoteAfterExit(h)]
      /\ hostEv' = (hostEv \cup (IF vote' = vote THEN {} ELSE Watching)) \ {h}
      /\ session' = [session EXCEPT ![h] = "none"]
      /\ requests' = requests \ {h} /\ exited' = exited \cup {h}
      /\ voteLost' = (voteLost \/ loop[h] = "die")
      /\ loop' = [loop EXCEPT ![h] = IF loop[h] = "die" THEN "dead" ELSE "off"]
      /\ UNCHANGED <<electionVars, schedule, snap, cache, stuck, res, next, swap, due, swaps,
                     faults, usurped>>
  BY DEF SchedulerReturns, Goto
<1>2. VoteAfterExit(h) \in {"none", "orphan", "forever"}
  BY DEF VoteAfterExit, IInv, TypeOK
<1>3. /\ vote' \in [Host -> {"none", "leased", "orphan", "forever"}]
      /\ vote'[h] # "leased" /\ \A g \in Host : g # h => vote'[g] = vote[g]
      /\ loop' \in [Host -> {"off", "wait", "decide", "exit", "die", "dead"}]
      /\ loop'[h] = IF loop[h] = "die" THEN "dead" ELSE "off"
      /\ \A g \in Host : g # h => loop'[g] = loop[g]
  BY <1>1, <1>2 DEF IInv, TypeOK
<1>4. Looping' = Looping /\ h \notin Looping /\ Watching \subseteq Host
  BY <1>1, <1>3 DEF Looping, Watching
<1>5. TypeOK'
  BY <1>1, <1>3, <1>4 DEF IInv, TypeOK, electionVars
<1>6. \A g \in Host : HoldsElection(g)' = HoldsElection(g)
  BY <1>1, AfterNothing DEF electionVars
<1>7. ASSUME NEW g \in Host PROVE Candidate(g)'
  <2>1. Key(g)' = Key(g) /\ DeadKey(g)' = DeadKey(g)
    BY DEF Key, DeadKey
  <2> QED
    BY <1>1, <1>4, <1>6, <2>1 DEF IInv, Candidate, electionVars
<1>8. ASSUME NEW g \in Host PROVE Remembers(g)'
  BY <1>1, <1>3, <1>6, OtherRemembers DEF electionVars
<1>9. ASSUME NEW g \in Host PROVE Decides(g)'
  <2>1. CASE g = h
    BY <1>4, <2>1 DEF Decides, Leads
  <2>2. CASE g # h
    <3>1. Voters' = Voters \/ g \notin Watching \/ g \in hostEv'
      BY <1>1, <2>2 DEF Voters
    <3> QED
      BY <1>1, <1>3, <1>6, <2>2, <3>1, OtherDecides DEF electionVars
  <2> QED
    BY <2>1, <2>2
<1>10. ASSUME NEW g \in Host PROVE Owns(g)'
  <2>1. CASE g = h
    BY <1>1, <1>3, <2>1 DEF IInv, Owns
  <2>2. CASE g # h
    BY <1>1, <1>3, <2>2 DEF IInv, Owns
  <2> QED
    BY <2>1, <2>2
<1> QED
  BY <1>1, <1>5, <1>7, <1>8, <1>9, <1>10 DEF IInv

(***************************************************************************)
(* The election                                                            *)
(***************************************************************************)

\* a step that only changes keys, of which nobody's live key is taken but, with
\* its session, that of h
LEMMA KeysChange ==
    ASSUME NEW h \in Host, IInv,
           keys' \in Seq(KeyRecord), leaderEv' \subseteq Host, lost' \subseteq Host,
           campaign' \in [Host -> {"off", "nil", "put", "wait", "done"}],
           UNCHANGED <<startup, elected, loop, schedule, snap, cache, exited, usurped, vote,
                       hostEv>>,
           \A g \in Host :
             /\ HoldsElection(g) => HoldsElection(g)' \/ g \in lost'
             /\ HoldsElection(g)' => HoldsElection(g)
                                       \/ (g \in Looping /\ g \notin lost /\ elected[g] # g)
             /\ g \in lost => g \in lost',
           \A g \in Host : g # h =>
             /\ Key(g) \in Range(keys') => Key(g) \in Range(keys)
             /\ DeadKey(g) \in Range(keys') => DeadKey(g) \in Range(keys)
             /\ HoldsElection(g) => HoldsElection(g)'
             /\ campaign'[g] = campaign[g] /\ (g \in lost' <=> g \in lost),
           Candidate(h)'
    PROVE  \A g \in Host : Candidate(g)' /\ Remembers(g)' /\ Decides(g)'
<1>1. ASSUME NEW g \in Host, g # h PROVE Candidate(g)'
  BY <1>1, OtherCandidate
<1>2. ASSUME NEW g \in Host PROVE Remembers(g)'
  BY OtherRemembers
<1>3. Voters' = Voters
  BY DEF Voters
<1>4. ASSUME NEW g \in Host PROVE Decides(g)'
  BY <1>3, OtherDecides
<1> QED
  BY <1>1, <1>2, <1>4

LEMMA SetKeysTypes ==
    ASSUME NEW new, SetKeys(new), TypeOK
    PROVE  keys' = new /\ leaderEv' \subseteq Host
  BY DEF SetKeys, TypeOK, Observing

LEMMA CampaignPutsKeeps ==
    ASSUME NEW h \in Host, IInv, h \in Looping, CampaignPuts(h),
           UNCHANGED <<etcdVars, loop, leaderVars, apparatusVars, resVars, boundVars, historyVars>>
    PROVE  IInv'
<1>1. /\ campaign[h] = "put" /\ h \notin lost /\ UNCHANGED <<startup, elected, lost>>
      /\ campaign' = [campaign EXCEPT ![h] = "wait"]
      /\ SetKeys(IF Key(h) \in Range(keys) THEN keys ELSE Append(keys, Key(h)))
  BY DEF CampaignPuts
<1>2. /\ Key(h) \notin Range(keys) /\ DeadKey(h) \notin Range(keys) /\ ~HoldsElection(h)
      /\ elected[h] # h /\ startup[h] = None
  BY <1>1, Held DEF IInv, Candidate
<1>3. keys' = Append(keys, Key(h)) /\ leaderEv' \subseteq Host
  BY <1>1, <1>2, SetKeysTypes DEF IInv
<1>4. /\ keys' \in Seq(KeyRecord) /\ Range(keys') = Range(keys) \cup {Key(h)}
      /\ \A g \in Host : /\ HoldsElection(g) => HoldsElection(g)'
                         /\ HoldsElection(g)' => HoldsElection(g) \/ g = h
  BY <1>3, AfterAppend DEF IInv
<1>5. /\ campaign' \in [Host -> {"off", "nil", "put", "wait", "done"}]
      /\ campaign'[h] = "wait" /\ \A g \in Host : g # h => campaign'[g] = campaign[g]
  BY <1>1 DEF IInv, TypeOK
<1>6. TypeOK'
  BY <1>1, <1>3, <1>4, <1>5 DEF IInv, TypeOK, KeyRecord
<1>7. Candidate(h)'
  <2>1. Key(h)' = Key(h) /\ DeadKey(h)' = DeadKey(h) /\ DeadKey(h) # Key(h)
    BY KeyTypes DEF Key, DeadKey
  <2>2. h \in Looping'
    BY DEF Looping
  <2> QED
    BY <1>1, <1>2, <1>4, <1>5, <2>1, <2>2 DEF Candidate
<1>8. ASSUME NEW g \in Host, g # h
      PROVE  /\ Key(g) \in Range(keys') => Key(g) \in Range(keys)
             /\ DeadKey(g) \in Range(keys') => DeadKey(g) \in Range(keys)
  BY <1>4, <1>8, KeyTypes
<1>9. lost' = lost /\ lost' \subseteq Host
  BY <1>1 DEF IInv, TypeOK
<1>10. \A g \in Host : Candidate(g)' /\ Remembers(g)' /\ Decides(g)'
  BY <1>1, <1>2, <1>3, <1>4, <1>5, <1>7, <1>8, <1>9, KeysChange
<1> QED
  BY <1>6, <1>10 DEF IInv, Owns

LEMMA CampaignWinsKeeps ==
    ASSUME NEW h \in Host, IInv, h \in Looping, CampaignWins(h),
           UNCHANGED <<etcdVars, loop, leaderVars, apparatusVars, resVars, boundVars, historyVars>>
    PROVE  IInv'
<1>1. /\ campaign[h] = "wait" /\ (HoldsElection(h) \/ h \in lost)
      /\ campaign' = [campaign EXCEPT ![h] = "done"]
      /\ UNCHANGED <<keys, startup, leaderEv, elected, lost>>
  BY DEF CampaignWins
<1>2. /\ campaign' \in [Host -> {"off", "nil", "put", "wait", "done"}]
      /\ campaign'[h] = "done" /\ \A g \in Host : g # h => campaign'[g] = campaign[g]
  BY <1>1 DEF IInv, TypeOK
<1>3. TypeOK'
  BY <1>1, <1>2 DEF IInv, TypeOK
<1>4. \A g \in Host : HoldsElection(g)' = HoldsElection(g)
  BY <1>1, AfterNothing
<1>5. Candidate(h)'
  <2>1. Key(h)' = Key(h) /\ DeadKey(h)' = DeadKey(h) /\ Looping' = Looping
    BY DEF Key, DeadKey, Looping
  <2> QED
    BY <1>1, <1>2, <1>4, <2>1 DEF IInv, Candidate
<1>6. keys' \in Seq(KeyRecord) /\ leaderEv' \subseteq Host /\ lost' \subseteq Host
  BY <1>1 DEF IInv, TypeOK, KeyRecord
<1>7. \A g \in Host : Candidate(g)' /\ Remembers(g)' /\ Decides(g)'
  BY <1>1, <1>2, <1>4, <1>5, <1>6, KeysChange
<1> QED
  BY <1>3, <1>7 DEF IInv, Owns

LEMMA CampaignKeeps ==
    ASSUME NEW h \in Host, IInv, Campaign(h)
    PROVE  IInv'
<1>1. CASE CampaignErrs(h) /\ Die(h) /\ UNCHANGED faults
  <2>1. faults' \in 0..MaxFaults
    BY <1>1 DEF IInv, TypeOK
  <2> QED
    BY <1>1, <2>1, DieKeeps DEF Campaign
<1> QED
  BY <1>1, CampaignPutsKeeps, CampaignWinsKeeps DEF Campaign

LEMMA SessionLostKeeps ==
    ASSUME NEW h \in Host, IInv, h \in Looping, SessionLost(h),
           UNCHANGED <<etcdVars, loop, leaderVars, exited, usurped>>
    PROVE  /\ keys' \in Seq(KeyRecord) /\ leaderEv' \subseteq Host /\ lost' \subseteq Host
           /\ \A g \in Host : Candidate(g)' /\ Remembers(g)' /\ Decides(g)'
<1>1. /\ h \notin lost /\ lost' = lost \cup {h} /\ UNCHANGED <<campaign, startup, elected>>
      /\ SetKeys(Without(Key(h)))
  BY DEF SessionLost
<1>2. keys' = Without(Key(h)) /\ leaderEv' \subseteq Host
  BY <1>1, SetKeysTypes DEF IInv
<1>3. /\ keys' \in Seq(KeyRecord) /\ Range(keys') = Range(keys) \ {Key(h)}
      /\ \A g \in Host : /\ HoldsElection(g) /\ Key(g) # Key(h) => HoldsElection(g)'
                         /\ HoldsElection(g)' => Key(g) \in Range(keys) /\ Key(g) # Key(h)
  BY <1>2, AfterRemoval, KeyTypes DEF IInv
<1>4. ASSUME NEW g \in Host
      PROVE  /\ HoldsElection(g) => HoldsElection(g)' \/ g \in lost'
             /\ HoldsElection(g)' => HoldsElection(g)
                                       \/ (g \in Looping /\ g \notin lost /\ elected[g] # g)
             /\ g # h /\ HoldsElection(g) => HoldsElection(g)'
  BY <1>1, <1>3, KeyTypes, Successor
<1>5. Candidate(h)'
  <2>1. Key(h)' = Key(h) /\ DeadKey(h)' = DeadKey(h) /\ Looping' = Looping
    BY DEF Key, DeadKey, Looping
  <2> QED
    BY <1>1, <1>3, <2>1 DEF IInv, Candidate
<1>6. /\ lost' \subseteq Host /\ campaign' \in [Host -> {"off", "nil", "put", "wait", "done"}]
      /\ campaign' = campaign /\ \A g \in Host : g # h => (g \in lost' <=> g \in lost)
      /\ \A g \in Host : g \in lost => g \in lost'
  BY <1>1 DEF IInv, TypeOK
<1>7. \A g \in Host : Candidate(g)' /\ Remembers(g)' /\ Decides(g)'
  BY <1>1, <1>2, <1>3, <1>4, <1>5, <1>6, KeysChange
<1> QED
  BY <1>2, <1>3, <1>6, <1>7

LEMMA CutOffKeeps ==
    ASSUME NEW h \in Host, IInv, CutOff(h)
    PROVE  IInv'
<1>1. /\ faults' \in 0..MaxFaults
      /\ UNCHANGED <<loop, leaderVars, requests, exited, stuck, resVars, swaps, usurped>>
  BY SchedulerAssumption DEF CutOff, Fault, IInv, TypeOK
<1>2. CASE h \in Looping /\ SessionLost(h) /\ UNCHANGED <<etcdVars, session, voteLost>>
  <2>1. /\ keys' \in Seq(KeyRecord) /\ leaderEv' \subseteq Host /\ lost' \subseteq Host
        /\ \A g \in Host : Candidate(g)' /\ Remembers(g)' /\ Decides(g)'
    BY <1>1, <1>2, SessionLostKeeps
  <2>2. TypeOK'
    BY <1>1, <1>2, <2>1 DEF IInv, TypeOK, KeyRecord, SessionLost
  <2> QED
    BY <1>1, <1>2, <2>1, <2>2 DEF IInv, Owns
<1>3. CASE /\ session[h] = "open" /\ session' = [session EXCEPT ![h] = "done"]
           /\ SetVote(h, IF vote[h] = "leased" THEN "none" ELSE vote[h])
           /\ voteLost' = TRUE /\ UNCHANGED <<electionVars, schedule>>
  <2>1. PICK v \in {"none", "orphan", "forever"} : SetVote(h, v)
    BY <1>3 DEF IInv, TypeOK
  <2>2. /\ vote' \in [Host -> {"none", "leased", "orphan", "forever"}]
        /\ hostEv' \subseteq Host /\ hostEv \subseteq hostEv'
        /\ vote'[h] = v /\ \A g \in Host : g # h => vote'[g] = vote[g]
        /\ Voters' = Voters \/ Watching \subseteq hostEv'
    BY <2>1, VoteChange DEF IInv
  <2>3. TypeOK'
    BY <1>1, <1>3, <2>2 DEF IInv, TypeOK, electionVars
  <2>4. ASSUME NEW g \in Host PROVE Owns(g)'
    BY <1>1, <1>3 DEF IInv, Owns
  <2> QED
    BY <1>1, <1>3, <2>2, <2>3, <2>4, ResourceStep
<1> QED
  BY <1>2, <1>3 DEF CutOff

LEMMA ExpiresKeeps ==
    ASSUME IInv, Expires
    PROVE  IInv'
<1>1. UNCHANGED <<loop, leaderVars, apparatusVars, resVars, boundVars, historyVars>>
  BY DEF Expires
<1>2. CASE KeyExpires /\ UNCHANGED etcdVars
  <2>1. PICK k \in Range(keys) : ~k.live /\ SetKeys(Without(k))
    BY <1>2 DEF KeyExpires
  <2>2. UNCHANGED <<campaign, startup, elected, lost>>
    BY <1>2 DEF KeyExpires
  <2>3. PICK h \in Host : k = DeadKey(h)
    <3>1. k \in KeyRecord
      <4>1. keys \in Seq(KeyRecord)
        BY DEF IInv, TypeOK, KeyRecord
      <4>2. \A i \in DOMAIN keys : keys[i] \in KeyRecord
        BY <4>1
      <4> QED
        BY <4>2 DEF Range
    <3>2. PICK x \in Host, b \in BOOLEAN : k = [host |-> x, live |-> b]
      BY <3>1 DEF KeyRecord
    <3> QED
      BY <2>1, <3>2 DEF DeadKey
  <2>4. keys' = Without(k) /\ leaderEv' \subseteq Host
    BY <2>1, SetKeysTypes DEF IInv
  <2>5. /\ keys' \in Seq(KeyRecord) /\ Range(keys') = Range(keys) \ {k}
        /\ \A g \in Host : /\ HoldsElection(g) => HoldsElection(g)'
                           /\ HoldsElection(g)' => Key(g) \in Range(keys)
    BY <2>3, <2>4, AfterRemoval, KeyTypes DEF IInv
  <2>6. ASSUME NEW g \in Host
        PROVE  HoldsElection(g)' => HoldsElection(g)
                                      \/ (g \in Looping /\ g \notin lost /\ elected[g] # g)
    BY <2>5, Successor
  <2>7. Candidate(h)'
    BY <1>1, <2>2, <2>5, OtherCandidate
  <2>8. lost' \subseteq Host /\ campaign' \in [Host -> {"off", "nil", "put", "wait", "done"}]
    BY <2>2 DEF IInv, TypeOK
  <2>9. \A g \in Host : Candidate(g)' /\ Remembers(g)' /\ Decides(g)'
    BY <1>1, <1>2, <2>2, <2>4, <2>5, <2>6, <2>7, <2>8, KeysChange
  <2>10. TypeOK'
    BY <1>1, <1>2, <2>2, <2>4, <2>5, <2>8 DEF IInv, TypeOK, KeyRecord
  <2> QED
    BY <1>1, <1>2, <2>9, <2>10 DEF IInv, Owns
<1>3. ASSUME NEW h \in Host, vote[h] = "orphan", SetVote(h, "none"),
             UNCHANGED <<electionVars, schedule>>
      PROVE  IInv'
  <2>1. /\ vote' \in [Host -> {"none", "leased", "orphan", "forever"}]
        /\ hostEv' \subseteq Host /\ hostEv \subseteq hostEv'
        /\ vote'[h] = "none" /\ \A g \in Host : g # h => vote'[g] = vote[g]
        /\ Voters' = Voters \/ Watching \subseteq hostEv'
    BY <1>3, VoteChange DEF IInv
  <2>2. TypeOK'
    BY <1>1, <1>3, <2>1 DEF IInv, TypeOK, electionVars
  <2>3. ASSUME NEW g \in Host PROVE Owns(g)'
    <3>1. vote'[g] = "leased" => vote[g] = "leased"
      BY <2>1
    <3> QED
      BY <1>1, <3>1 DEF IInv, Owns
  <2> QED
    BY <1>1, <1>3, <2>1, <2>2, <2>3, ResourceStep
<1> QED
  BY <1>2, <1>3 DEF Expires, Expiry

(***************************************************************************)
(* A host starts, stops and crashes                                        *)
(***************************************************************************)

\* a scheduler that starts, on a host that has no key in this life
LEMMA EnterKeeps ==
    ASSUME NEW h \in Host, IInv, Enter(h)
    PROVE  IInv'
<1>1. /\ swap[h] = "enter" /\ next[h] # "none"
      /\ swap' = [swap EXCEPT ![h] = "no"] /\ res' = [res EXCEPT ![h] = next[h]]
      /\ due' \subseteq Host
      /\ UNCHANGED <<etcdVars, leaderVars, apparatusVars, next, boundVars, historyVars>>
  BY DEF Enter, StartupEvent, IInv, TypeOK, Owns
<1>2. /\ swap' \in [Host -> {"no", "clean", "enter", "stop"}]
      /\ res' \in [Host -> {"none", "add", "withdraw"}]
      /\ swap'[h] = "no" /\ res'[h] # "none"
      /\ \A g \in Host : g # h => swap'[g] = swap[g] /\ res'[g] = res[g]
  BY <1>1 DEF IInv, TypeOK
<1>3. Voters' = Voters
  BY <1>1 DEF Voters
<1>4. CASE loop[h] # "off"
  <2>1. UNCHANGED <<electionVars, loop>>
    BY <1>4 DEF Enter
  <2>2. TypeOK'
    BY <1>1, <1>2, <2>1 DEF IInv, TypeOK, electionVars
  <2>3. ASSUME NEW g \in Host PROVE Owns(g)'
    <3>1. CASE g = h
      BY <1>1, <1>2, <1>4, <2>1, <3>1 DEF IInv, Owns
    <3>2. CASE g # h
      BY <1>1, <1>2, <2>1, <3>2 DEF IInv, Owns
    <3> QED
      BY <3>1, <3>2
  <2> QED
    BY <1>1, <1>3, <2>1, <2>2, <2>3, ResourceStep
<1>5. CASE loop[h] = "off"
  <2>1. /\ campaign' = [campaign EXCEPT ![h] = IF keys = <<>> THEN "put" ELSE "nil"]
        /\ startup' = [startup EXCEPT ![h] = Leader]
        /\ elected' = [elected EXCEPT ![h] = None] /\ lost' = lost \ {h}
        /\ UNCHANGED <<keys, leaderEv>> /\ loop' = [loop EXCEPT ![h] = "wait"]
    BY <1>5 DEF Enter, ObserveStarts, Goto
  <2>2. Leader \in Host \cup {None} /\ (Leader # None => keys # <<>>)
    BY LeaderFacts DEF IInv, Leader
  <2>3. /\ campaign' \in [Host -> {"off", "nil", "put", "wait", "done"}]
        /\ startup' \in [Host -> Host \cup {None}] /\ elected' \in [Host -> Host \cup {None}]
        /\ loop' \in [Host -> {"off", "wait", "decide", "exit", "die", "dead"}]
        /\ campaign'[h] = IF keys = <<>> THEN "put" ELSE "nil"
        /\ startup'[h] = Leader /\ elected'[h] = None /\ loop'[h] = "wait" /\ h \notin lost'
        /\ \A g \in Host : g # h =>
             /\ campaign'[g] = campaign[g] /\ startup'[g] = startup[g]
             /\ elected'[g] = elected[g] /\ loop'[g] = loop[g] /\ (g \in lost' <=> g \in lost)
    BY <2>1, <2>2 DEF IInv, TypeOK
  <2>4. TypeOK'
    BY <1>1, <1>2, <2>1, <2>3 DEF IInv, TypeOK
  <2>5. \A g \in Host : HoldsElection(g)' = HoldsElection(g)
    BY <2>1, AfterNothing
  <2>6. campaign[h] = "off" /\ h \notin lost /\ Key(h) \notin Range(keys) /\ ~HoldsElection(h)
    <3>1. h \notin Looping
      BY <1>5 DEF Looping
    <3> QED
      BY <3>1, Held DEF IInv, Candidate
  <2>7. Candidate(h)'
    <3>1. Key(h)' = Key(h) /\ DeadKey(h)' = DeadKey(h) /\ h \in Looping' /\ None # h
      BY <2>3, NoneAssumption DEF Key, DeadKey, Looping
    <3>2. DeadKey(h) \in Range(keys) => keys # <<>>
      BY DEF Range
    <3> QED
      BY <2>1, <2>2, <2>3, <2>5, <2>6, <3>1, <3>2 DEF Candidate
  <2>8. ASSUME NEW g \in Host, g # h PROVE Candidate(g)' /\ Remembers(g)' /\ Decides(g)'
    <3>1. Candidate(g)'
      BY <2>1, <2>3, <2>5, <2>8, OtherCandidate
    <3>2. Remembers(g)'
      BY <1>1, <2>3, <2>5, <2>8, OtherRemembers
    <3>3. Decides(g)'
      BY <1>1, <1>3, <2>3, <2>5, <2>8, OtherDecides
    <3> QED
      BY <3>1, <3>2, <3>3
  <2>9. Remembers(h)'
    BY <1>1, <1>5, <2>6 DEF IInv, Remembers
  <2>10. Decides(h)'
    BY <2>3, NoneAssumption DEF Decides, Leads
  <2>11. ASSUME NEW g \in Host PROVE Owns(g)'
    <3>1. CASE g = h
      BY <1>1, <1>2, <2>3, <3>1 DEF IInv, Owns
    <3>2. CASE g # h
      BY <1>1, <1>2, <2>3, <3>2 DEF IInv, Owns
    <3> QED
      BY <3>1, <3>2
  <2> QED
    BY <1>1, <2>4, <2>7, <2>8, <2>9, <2>10, <2>11 DEF IInv
<1> QED
  BY <1>4, <1>5

LEMMA StopBackgroundKeeps ==
    ASSUME NEW h \in Host, IInv, StopBackground(h)
    PROVE  IInv'
<1>1. /\ swap[h] = "stop"
      /\ UNCHANGED <<etcdVars, cache, apparatusVars, next, boundVars, historyVars>>
  BY DEF StopBackground
<1>2. CASE h \in Looping /\ Leave(h, "exit") /\ UNCHANGED <<res, swap, due>>
  <2>1. /\ loop' \in [Host -> {"off", "wait", "decide", "exit", "die", "dead"}]
        /\ snap' \in [Host -> SUBSET Host] /\ loop'[h] = "exit"
        /\ \A g \in Host : g # h => loop'[g] = loop[g]
        /\ keys' \in Seq(KeyRecord) /\ leaderEv' \subseteq Host /\ lost' \subseteq Host
        /\ campaign' \in [Host -> {"off", "nil", "put", "wait", "done"}]
        /\ startup' \in [Host -> Host \cup {None}]
        /\ elected' \in [Host -> Host \cup {None}]
        /\ \A g \in Host : Candidate(g)' /\ Remembers(g)' /\ Decides(g)'
    BY <1>1, <1>2, LeaveKeeps
  <2>2. TypeOK'
    BY <1>1, <1>2, <2>1 DEF IInv, TypeOK, KeyRecord
  <2>3. ASSUME NEW g \in Host PROVE Owns(g)'
    <3>1. loop'[g] = loop[g] \/ (g = h /\ loop'[g] = "exit")
      BY <2>1
    <3> QED
      BY <1>1, <1>2, <3>1 DEF IInv, Owns
  <2> QED
    BY <1>1, <2>1, <2>2, <2>3 DEF IInv
<1>3. CASE /\ loop[h] \in {"off", "dead"} /\ Goto(h, "off")
           /\ swap' = [swap EXCEPT ![h] = "no"] /\ res' = [res EXCEPT ![h] = "none"]
           /\ due' = due \ {h} /\ UNCHANGED <<electionVars, snap>>
  <2>1. loop' = [loop EXCEPT ![h] = "off"]
    BY <1>3 DEF Goto
  <2>2. /\ loop' \in [Host -> {"off", "wait", "decide", "exit", "die", "dead"}]
        /\ swap' \in [Host -> {"no", "clean", "enter", "stop"}]
        /\ res' \in [Host -> {"none", "add", "withdraw"}]
        /\ loop'[h] = "off" /\ swap'[h] = "no" /\ res'[h] = "none"
        /\ \A g \in Host : g # h =>
             loop'[g] = loop[g] /\ swap'[g] = swap[g] /\ res'[g] = res[g]
    BY <1>3, <2>1 DEF IInv, TypeOK
  <2>3. TypeOK'
    BY <1>1, <1>3, <2>2 DEF IInv, TypeOK, electionVars
  <2>4. Looping' = Looping /\ h \notin Looping /\ Voters' = Voters
    BY <1>1, <1>3, <2>2 DEF Looping, Voters
  <2>5. \A g \in Host : HoldsElection(g)' = HoldsElection(g)
    BY <1>3, AfterNothing DEF electionVars
  <2>6. ASSUME NEW g \in Host PROVE Candidate(g)'
    <3>1. Key(g)' = Key(g) /\ DeadKey(g)' = DeadKey(g)
      BY DEF Key, DeadKey
    <3> QED
      BY <1>3, <2>4, <2>5, <3>1 DEF IInv, Candidate, electionVars
  <2>7. ASSUME NEW g \in Host PROVE Remembers(g)'
    BY <1>1, <1>3, <2>2, <2>5, OtherRemembers DEF electionVars
  <2>8. ASSUME NEW g \in Host PROVE Decides(g)'
    <3>1. CASE g = h
      BY <2>4, <3>1 DEF Decides, Leads
    <3>2. CASE g # h
      BY <1>1, <1>3, <2>2, <2>4, <2>5, <3>2, OtherDecides DEF electionVars
    <3> QED
      BY <3>1, <3>2
  <2>9. ASSUME NEW g \in Host PROVE Owns(g)'
    <3>1. CASE g = h
      BY <1>1, <1>3, <2>2, <3>1 DEF IInv, Owns
    <3>2. CASE g # h
      BY <1>1, <2>2, <3>2 DEF IInv, Owns
    <3> QED
      BY <3>1, <3>2
  <2> QED
    BY <1>1, <2>3, <2>6, <2>7, <2>8, <2>9 DEF IInv
<1> QED
  BY <1>2, <1>3 DEF StopBackground

LEMMA CrashKeeps ==
    ASSUME NEW h \in Host, IInv, Crash(h)
    PROVE  IInv'
<1>1. /\ ObserverDies(h) /\ faults' \in 0..MaxFaults
      /\ vote' = [vote EXCEPT ![h] = IF @ = "leased" THEN "orphan" ELSE @]
      /\ hostEv' = hostEv \ {h} /\ loop' = [loop EXCEPT ![h] = "off"]
      /\ snap' = [snap EXCEPT ![h] = {}] /\ cache' = [cache EXCEPT ![h] = <<>>]
      /\ session' = [session EXCEPT ![h] = "none"]
      /\ requests' = requests \ {h} /\ exited' = exited \ {h} /\ stuck' = stuck \ {h}
      /\ res' = [res EXCEPT ![h] = "none"] /\ next' = [next EXCEPT ![h] = "none"]
      /\ swap' = [swap EXCEPT ![h] = "no"] /\ due' = due \ {h}
      /\ UNCHANGED <<schedule, swaps, usurped, voteLost>>
  BY SchedulerAssumption DEF Crash, Fault, Goto, IInv, TypeOK
<1>2. /\ campaign' = [campaign EXCEPT ![h] = "off"] /\ startup' = [startup EXCEPT ![h] = None]
      /\ elected' = [elected EXCEPT ![h] = None] /\ lost' = lost \ {h}
      /\ leaderEv' = leaderEv \ {h}
  BY <1>1 DEF ObserverDies
<1>3. /\ keys' \in Seq(KeyRecord)
      /\ \A g \in Host :
           /\ Key(g) \in Range(keys') => g # h /\ Key(g) \in Range(keys)
           /\ DeadKey(g) \in Range(keys') => g = h \/ DeadKey(g) \in Range(keys)
           /\ HoldsElection(g)' <=> g # h /\ HoldsElection(g)
  BY <1>1, AfterDeath DEF IInv
<1>4. /\ vote' \in [Host -> {"none", "leased", "orphan", "forever"}]
      /\ loop' \in [Host -> {"off", "wait", "decide", "exit", "die", "dead"}]
      /\ vote'[h] # "leased" /\ loop'[h] = "off" /\ (vote'[h] = "none" <=> vote[h] = "none")
      /\ \A g \in Host : g # h => vote'[g] = vote[g] /\ loop'[g] = loop[g]
  BY <1>1 DEF IInv, TypeOK
<1>5. /\ campaign' \in [Host -> {"off", "nil", "put", "wait", "done"}]
      /\ startup' \in [Host -> Host \cup {None}] /\ elected' \in [Host -> Host \cup {None}]
      /\ campaign'[h] = "off" /\ startup'[h] = None /\ elected'[h] = None /\ h \notin lost'
      /\ \A g \in Host : g # h =>
           /\ campaign'[g] = campaign[g] /\ startup'[g] = startup[g]
           /\ elected'[g] = elected[g] /\ (g \in lost' <=> g \in lost)
  BY <1>2 DEF IInv, TypeOK
<1>6. /\ snap' \in [Host -> SUBSET Host] /\ cache' \in [Host -> Seq(Host)]
      /\ cache'[h] = <<>> /\ \A g \in Host : IsInjective(cache'[g])
      /\ \A g \in Host : g # h => snap'[g] = snap[g] /\ cache'[g] = cache[g]
  <2>1. IsInjective(<<>>) /\ <<>> \in Seq(Host)
    BY DEF IsInjective
  <2> QED
    BY <1>1, <2>1 DEF IInv, TypeOK
<1>7. /\ swap' \in [Host -> {"no", "clean", "enter", "stop"}]
      /\ res' \in [Host -> {"none", "add", "withdraw"}]
      /\ next' \in [Host -> {"none", "add", "withdraw"}]
      /\ session' \in [Host -> {"none", "open", "done"}]
      /\ swap'[h] = "no" /\ res'[h] = "none"
      /\ \A g \in Host : g # h => swap'[g] = swap[g] /\ res'[g] = res[g] /\ next'[g] = next[g]
  BY <1>1 DEF IInv, TypeOK
<1>8. TypeOK'
  BY <1>1, <1>2, <1>3, <1>4, <1>5, <1>6, <1>7 DEF IInv, TypeOK, KeyRecord
<1>9. Voters' = Voters /\ h \notin Looping'
  BY <1>4 DEF Voters, Looping
<1>10. ASSUME NEW g \in Host, g # h PROVE Candidate(g)' /\ Remembers(g)' /\ Decides(g)'
  <2>1. Candidate(g)'
    BY <1>3, <1>4, <1>5, <1>10, OtherCandidate
  <2>2. Remembers(g)'
    BY <1>1, <1>3, <1>4, <1>5, <1>6, <1>10, OtherRemembers
  <2>3. Decides(g)'
    BY <1>1, <1>3, <1>4, <1>5, <1>6, <1>9, <1>10, OtherDecides
  <2> QED
    BY <2>1, <2>2, <2>3
<1>11. Candidate(h)'
  <2>1. Key(h)' = Key(h) /\ None # h
    BY NoneAssumption DEF Key
  <2> QED
    BY <1>3, <1>5, <1>9, <2>1 DEF Candidate
<1>12. Remembers(h)' /\ Decides(h)'
  BY <1>6, <1>9 DEF Remembers, Decides, Leads
<1>13. ASSUME NEW g \in Host PROVE Owns(g)'
  <2>1. CASE g = h
    BY <1>4, <1>7, <2>1 DEF Owns
  <2>2. CASE g # h
    BY <1>1, <1>4, <1>7, <2>2 DEF IInv, Owns
  <2> QED
    BY <2>1, <2>2
<1> QED
  BY <1>1, <1>8, <1>10, <1>11, <1>12, <1>13 DEF IInv

-----------------------------------------------------------------------------

LEMMA InitHolds ==
    ASSUME Init
    PROVE  IInv
<1> USE DEF Init, ElectionInit
<1>1. TypeOK
  <2>1. IsInjective(<<>>) /\ <<>> \in Seq(Host)
    BY DEF IsInjective
  <2>2. cache \in [Host -> Seq(Host)] /\ \A h \in Host : IsInjective(cache[h])
    BY <2>1
  <2>3. swaps \in 0..MaxSwaps /\ faults \in 0..MaxFaults
    BY SchedulerAssumption
  <2>4. /\ next \in [Host -> {"none", "add", "withdraw"}]
        /\ swap \in [Host -> {"no", "clean", "enter", "stop"}]
    <3>1. \A h \in Host : next[h] \in {"none", "add", "withdraw"}
      OBVIOUS
    <3> QED
      BY <3>1
  <2>5. /\ keys \in Seq([host : Host, live : BOOLEAN])
        /\ leaderEv \subseteq Host /\ lost \subseteq Host
        /\ campaign \in [Host -> {"off", "nil", "put", "wait", "done"}]
        /\ startup \in [Host -> Host \cup {None}] /\ elected \in [Host -> Host \cup {None}]
    OBVIOUS
  <2> QED
    BY <2>2, <2>3, <2>4, <2>5 DEF TypeOK
<1>2. Cardinality(schedule) <= MaxCount
  BY FS_EmptySet, SchedulerAssumption
<1>3. Range(keys) = {} /\ Looping = {}
  BY DEF Range, Looping
<1>4. ASSUME NEW h \in Host PROVE Candidate(h) /\ Remembers(h) /\ Decides(h) /\ Owns(h)
  <2>1. Candidate(h)
    BY <1>3, NoneAssumption DEF Candidate
  <2>2. Remembers(h) /\ Decides(h)
    BY <1>3 DEF Remembers, Decides, Leads
  <2>3. Owns(h)
    BY DEF Owns
  <2> QED
    BY <2>1, <2>2, <2>3
<1> QED
  BY <1>1, <1>2, <1>4 DEF IInv

LEMMA StutterKeeps ==
    ASSUME IInv, UNCHANGED vars
    PROVE  IInv'
<1>1. TypeOK'
  BY DEF IInv, TypeOK, vars, electionVars
<1>2. ASSUME NEW g \in Host PROVE Owns(g)'
  BY DEF IInv, Owns, vars
<1>3. Voters' = Voters
  BY DEF Voters, vars
<1> QED
  BY <1>1, <1>2, <1>3, ResourceStep DEF vars

LEMMA NextKeeps ==
    ASSUME IInv, [Next]_vars
    PROVE  IInv'
<1>1. CASE Expires
  BY <1>1, ExpiresKeeps
<1>2. ASSUME NEW h \in Host, SchedulerStep(h) PROVE IInv'
  BY <1>2, ElectionEventKeeps, HostnameEventKeeps, doScheduledKeeps, SchedulerReturnsKeeps
     DEF SchedulerStep
<1>3. ASSUME NEW h \in Host, Campaign(h) PROVE IInv'
  BY <1>3, CampaignKeeps
<1>4. ASSUME NEW h \in Host, EngineStep(h) PROVE IInv'
  BY <1>4, SchedulerAddKeeps, SchedulerWithdrawKeeps, WatchReturnsKeeps, EnterKeeps,
     StopBackgroundKeeps DEF EngineStep
<1>5. ASSUME NEW h \in Host, Failure(h) PROVE IInv'
  BY <1>5, NewSessionFailsKeeps, TxnFailsKeeps, WatchFailsKeeps, SchedulerFailsKeeps,
     CrashKeeps, CutOffKeeps DEF Failure
<1>6. ASSUME NEW h \in Host, NEW r \in {"none", "add", "withdraw"}, Swap(h, r) PROVE IInv'
  BY <1>6, SwapKeeps
<1>7. CASE UNCHANGED vars
  BY <1>7, StutterKeeps
<1> QED
  BY <1>1, <1>2, <1>3, <1>4, <1>5, <1>6, <1>7 DEF Next

LEMMA Inductive == Spec => []IInv
<1>1. Init => IInv
  BY InitHolds
<1>2. IInv /\ [Next]_vars => IInv'
  BY NextKeeps
<1> QED
  BY <1>1, <1>2, PTL DEF Spec

(***************************************************************************)
(* The theorems                                                            *)
(***************************************************************************)

\* Types; no strategy ever has a host twice, for any number of hosts.
THEOREM SchedulerTypes == Spec => []TypeOK
<1>1. IInv => TypeOK
  BY DEF IInv
<1> QED
  BY <1>1, Inductive, PTL

\* Whenever the elected host has seen every event, the stored decision picks as
\* many hosts as it may of those that have a vote, whoever was elected before
\* and whatever crashed or expired (Scheduler and doScheduled of scheduler.go).
THEOREM DecisionsFit == Spec => []DecisionFitsVotes
<1>1. IInv => DecisionFitsVotes
  BY DEF IInv, Decides, DecisionFitsVotes
<1> QED
  BY <1>1, Inductive, PTL

\* No vote is renewed for a resource that is gone, unless a session failed
\* (SchedulerCleanup and the deferred functions of Scheduler).
THEOREM VotesAreOwned == Spec => []VotesHaveOwners
<1>1. IInv => VotesHaveOwners
  BY DEF IInv, Owns, VotesHaveOwners
<1> QED
  BY <1>1, Inductive, PTL

\* No decision replaces a host that was chosen and still has its vote, also when
\* the elected host changed (rrStrategy.Schedule, which starts from the decision
\* that is stored when it has no memory of its own).
THEOREM NoNeedlessChurn == Spec => NoChurn
<1>1. ASSUME IInv, NEW h \in Host, doScheduled(h), HoldsElection(h), h \notin exited, ~usurped
      PROVE  schedule \cap snap[h] \subseteq schedule'
  <2>1. schedule \subseteq First(Known(h))
    <3>1. CASE cache[h] = <<>>
      BY <1>1, <3>1, KnownFacts DEF IInv
    <3>2. CASE cache[h] # <<>>
      BY <1>1, <3>2 DEF IInv, Remembers, Known
    <3> QED
      BY <3>1, <3>2
  <2>2. /\ Rotation(h) \in Seq(Host) /\ IsInjective(Rotation(h))
        /\ schedule \cap snap[h] \subseteq First(Rotation(h))
    BY <1>1, <2>1, Rotations DEF IInv
  <2>3. schedule' = First(Rotation(h))
    BY <1>1, <2>2, Picked DEF doScheduled
  <2> QED
    BY <2>2, <2>3
<1>2. IInv => [\A h \in Host :
                 doScheduled(h) /\ HoldsElection(h) /\ h \notin exited /\ ~usurped
                   => schedule \cap snap[h] \subseteq schedule']_vars
  BY <1>1
<1> QED
  BY <1>2, Inductive, PTL DEF NoChurn
=============================================================================

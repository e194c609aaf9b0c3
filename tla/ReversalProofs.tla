--------------------------- MODULE ReversalProofs ---------------------------
(* Reversals keep their promise for any set of resources, any contents and   *)
(* any sequence of graphs, failed commits, restarts and crashes, as long as  *)
(* pending files are not overwritten.                                        *)
EXTENDS Reversal, TLAPS

\* a resource that leaves a reversal comes from the frontend
Origin ==
    \A n \in Res : next[n] # None => /\ next[n].reverse => ~next[n].reversal
                                     /\ next[n].reverse => n \in defined

\* a reversal whose state is OK has paid what was owed
Done == \A n \in Res : IsReversal(graph[n]) /\ isStateOK[n] => owed[n] = None

\* what is about to be written is what is owed, if anything is
Writing == pc = "write" => owed[str.res] \in {None, str.is} /\ str.res \in defined
                             /\ next[str.res] # None /\ ~next[str.res].reversal

\* what the pending graph has for a name that is gone
Planned ==
    pc \in {"remove", "add", "write"} =>
        \A n \in Res \ defined : owed[n] # None => next[n] = Decoded(owed[n])

\* how far GraphSync is: what is neither removed nor added yet is on its list
Progress ==
    /\ pc = "remove" =>
         \A n \in Res \ todo : graph[n] # None => graph[n] = next[n]
    /\ pc \in {"add", "write"} =>
         \A n \in Res : /\ graph[n] # None => graph[n] = next[n]
                        /\ graph[n] = None /\ next[n] # None =>
                             n \in todo \/ (pc = "write" /\ n = str.res)
    /\ pc \in {"add", "write"} => \A n \in todo : next[n] # None

IInv ==
    /\ TypeOK /\ InstructionsKept /\ SubsequentGraphReverses /\ TornByCrash
    /\ Origin /\ Done /\ Writing /\ Planned /\ Progress

USE ValueAssumption DEF Nothing

LEMMA DecodedType ==
    ASSUME NEW s \in Stored
    PROVE  /\ Decoded(s) \in Vertex /\ Decoded(s) # None
           /\ Decoded(s).reversal /\ ~Decoded(s).reverse
<1>1. Decoded(s) \in Vertex
  BY DEF Decoded, Stored, Vertex
<1>2. Decoded(s).reversal = TRUE /\ Decoded(s).reverse = FALSE
  BY DEF Decoded
<1> QED
  BY <1>1, <1>2

LEMMA ReversedType ==
    ASSUME NEW v \in Vertex, NEW m \in Value \cup {Absent}
    PROVE  Reversed(v, m) \in Stored
<1> DEFINE want == IF v.want \in Edit THEN [content |-> m]
                   ELSE IF v.want # Absent THEN Absent
                   ELSE IF m # Absent THEN m ELSE Exists
<1>1. [content |-> m] \in Edit
  BY DEF Edit
<1>2. want \in Wish
  BY <1>1 DEF Wish
<1>3. v.noop \in BOOLEAN
  BY DEF Vertex
<1>4. Reversed(v, m) = [want |-> want, noop |-> v.noop]
  BY DEF Reversed
<1> HIDE DEF want
<1> QED
  BY <1>2, <1>3, <1>4 DEF Stored

LEMMA AppliedType ==
    ASSUME NEW w \in Wish, NEW m \in Value \cup {Absent}
    PROVE  Applied(w, m) \subseteq Value \cup {Absent}
<1>1. CASE w \in Edit
  <2>1. w.content \in Value \cup {Absent}
    BY <1>1 DEF Edit
  <2> QED
    BY <1>1, <2>1 DEF Applied
<1>2. CASE w \notin Edit
  BY <1>2 DEF Applied, Wish
<1> QED
  BY <1>1, <1>2

LEMMA InitHolds == Init => IInv
  BY DEF Init, IInv, TypeOK, InstructionsKept, SubsequentGraphReverses, TornByCrash,
         Origin, Done, Writing, Planned, Progress, IsReversal

LEMMA NewGraphKeeps == IInv /\ NewGraph => IInv'
<1> SUFFICES ASSUME IInv, NewGraph PROVE IInv'
  OBVIOUS
<1> USE DEF IInv
<1>1. PICK d \in SUBSET Res, w \in [Res -> Wish], r \in SUBSET Res :
        /\ defined' = d
        /\ next' = Reversals([n \in Res |-> IF n \in d THEN Wanted(w[n], n \in r) ELSE None])
  BY DEF NewGraph, Asked
<1>2. ASSUME NEW n \in d
      PROVE  next'[n] = Wanted(w[n], n \in r) /\ Wanted(w[n], n \in r) \in Vertex
             /\ next'[n] # None
  <2>1. w[n] \in Wish /\ noop' \in BOOLEAN
    BY <1>2 DEF NewGraph
  <2>2. Wanted(w[n], n \in r) \in Vertex
    BY <2>1 DEF Wanted, Vertex
  <2>3. Wanted(w[n], n \in r) # None
    BY <2>2
  <2>4. next'[n] = Wanted(w[n], n \in r)
    BY <1>1, <1>2, <2>3 DEF Reversals
  <2> QED
    BY <2>2, <2>3, <2>4
<1>3. ASSUME NEW n \in Res \ d
      PROVE  IF file[n] # None
             THEN next'[n] = Decoded(file[n]) /\ file[n] \in Stored
             ELSE next'[n] = None
  BY <1>1, <1>3 DEF Reversals, NewGraph, TypeOK
<1>4. next' \in [Res -> Vertex \cup {None}]
  <2>1. \A n \in Res : next'[n] \in Vertex \cup {None}
    BY <1>1, <1>2, <1>3, DecodedType
  <2> QED
    BY <1>1, <2>1 DEF Reversals
<1>5. TypeOK'
  BY <1>4, <1>1 DEF TypeOK, NewGraph
<1>6. Origin'
  <2> SUFFICES ASSUME NEW n \in Res, next'[n] # None
               PROVE  /\ next'[n].reverse => ~next'[n].reversal
                      /\ next'[n].reverse => n \in d
    BY <1>1 DEF Origin
  <2>1. CASE n \in d
    <3>1. Wanted(w[n], n \in r).reversal = FALSE
      BY DEF Wanted
    <3> QED
      BY <2>1, <3>1, <1>2
  <2>2. CASE n \notin d
    BY <2>2, <1>3, DecodedType
  <2> QED
    BY <2>1, <2>2
<1>7. Planned'
  <2> SUFFICES ASSUME NEW n \in Res \ d, owed[n] # None
               PROVE  next'[n] = Decoded(owed[n])
    BY <1>1 DEF Planned, NewGraph
  <2>1. file[n] = owed[n]
    BY DEF InstructionsKept, NewGraph
  <2> QED
    BY <2>1, <1>3
<1>8. Progress'
  BY DEF Progress, NewGraph, TypeOK
<1>9. InstructionsKept' /\ SubsequentGraphReverses' /\ TornByCrash' /\ Done' /\ Writing'
  BY DEF NewGraph, InstructionsKept, SubsequentGraphReverses, TornByCrash, Done, Writing,
         IsReversal
<1> QED
  BY <1>5, <1>6, <1>7, <1>8, <1>9

LEMMA RemovalKeeps ==
    ASSUME IInv, NEW n \in Res, Remove(n) \/ RemoveFails(n)
    PROVE  IInv'
<1> USE DEF IInv
<1>1. /\ graph' = [graph EXCEPT ![n] = None]
      /\ isStateOK' = [isStateOK EXCEPT ![n] = FALSE]
      /\ ReversalCleanup(n) \/ UNCHANGED file
      /\ UNCHANGED <<machine, str, noop, defined, owed>>
      /\ pc \in {"remove", "unload"}
  BY DEF Remove, RemoveFails
<1>2. \/ file' = file
      \/ file' = [file EXCEPT ![n] = None] /\ owed[n] = None
  BY <1>1 DEF ReversalCleanup, Done
<1>3. TypeOK'
  <2>1. file' \in [Res -> Stored \cup {None, Torn}]
    BY <1>2 DEF TypeOK
  <2>2. graph' \in [Res -> Vertex \cup {None}] /\ isStateOK' \in [Res -> BOOLEAN]
    BY <1>1 DEF TypeOK
  <2>3. \A k \in Res : isStateOK'[k] => graph'[k] # None
    BY <1>1 DEF TypeOK
  <2>4. next' \in [Res -> Vertex \cup {None}] /\ todo' \subseteq Res
    BY DEF Remove, RemoveFails, TypeOK
  <2>5. pc' \in {"remove", "unload", "failed"} /\ str' = str /\ str = None
    BY <1>1 DEF Remove, RemoveFails, TypeOK
  <2> QED
    BY <1>1, <2>1, <2>2, <2>3, <2>4, <2>5 DEF TypeOK
<1>4. InstructionsKept'
  BY <1>1, <1>2 DEF InstructionsKept, TypeOK
<1>5. TornByCrash'
  BY <1>1, <1>2 DEF TornByCrash, TypeOK, Remove, RemoveFails
<1>6. Done'
  BY <1>1 DEF Done, TypeOK, IsReversal
<1>7. Origin'
  BY <1>1 DEF Origin, Remove, RemoveFails, TypeOK
<1>8. Planned' /\ Writing' /\ SubsequentGraphReverses'
  BY <1>1 DEF Planned, Writing, SubsequentGraphReverses, Remove, RemoveFails, TypeOK
<1>9. Progress'
  BY <1>1 DEF Progress, Remove, RemoveFails, TypeOK
<1> QED
  BY <1>3, <1>4, <1>5, <1>6, <1>7, <1>8, <1>9

LEMMA WriteKeeps ==
    ASSUME ~Overwrite, IInv, NEW n \in Res, ReversalWrite(n)
    PROVE  IInv'
<1> USE DEF IInv
<1>1. next[n] \in Vertex /\ next[n] # None /\ next[n].reverse
  BY DEF ReversalWrite, TypeOK, Progress
<1> DEFINE s == Reversed(next[n], machine[n])
<1>2. s \in Stored
  BY <1>1, ReversedType DEF TypeOK
<1>3. str' = [res |-> n, is |-> s] /\ str'.res = n /\ str'.is = s /\ str' # None
  BY <1>2 DEF ReversalWrite
<1>4. file[n] \in {None, s}
  BY DEF ReversalWrite, MayWrite
<1>5. owed[n] \in {None, s}
  BY <1>4, <1>2 DEF InstructionsKept, TypeOK
<1> HIDE DEF s
<1>6. TypeOK'
  BY <1>2, <1>3 DEF TypeOK, ReversalWrite
<1>7. InstructionsKept' /\ TornByCrash'
  BY <1>3 DEF InstructionsKept, TornByCrash, ReversalWrite, TypeOK
<1>8. Writing'
  BY <1>1, <1>3, <1>5 DEF Writing, ReversalWrite, Origin
<1>9. Progress' /\ Planned' /\ Origin' /\ Done' /\ SubsequentGraphReverses'
  BY <1>3 DEF Progress, Planned, Origin, Done, SubsequentGraphReverses, ReversalWrite, TypeOK
<1> QED
  BY <1>6, <1>7, <1>8, <1>9

LEMMA WrittenKeeps ==
    ASSUME IInv, Written \/ WrittenInitFails
    PROVE  IInv'
<1> USE DEF IInv
<1> DEFINE n == str.res
<1>1. pc = "write" /\ str # None /\ n \in Res /\ str.is \in Stored /\ str.is # Torn /\ str.is # None
  BY DEF Written, WrittenInitFails, TypeOK
<1>2. next[n] \in Vertex /\ n \in defined /\ ~next[n].reversal
  BY <1>1 DEF Writing, TypeOK
<1>3. owed'[n] \in {None, str.is} /\ (\A k \in Res \ {n} : owed'[k] = owed[k])
      /\ owed' \in [Res -> Stored \cup {None}]
  BY <1>1 DEF Written, WrittenInitFails, Owes, Writing, TypeOK
<1>4. file' = [file EXCEPT ![n] = str.is] /\ str' = None /\ UNCHANGED <<machine, isStateOK, noop, defined>>
  BY DEF Written, WrittenInitFails
<1>5. graph' \in {graph, [graph EXCEPT ![n] = next[n]]}
  BY DEF Written, WrittenInitFails
<1> HIDE DEF n
<1>6. TypeOK'
  <2>1. file' \in [Res -> Stored \cup {None, Torn}]
    BY <1>1, <1>4 DEF TypeOK
  <2>2. graph' \in [Res -> Vertex \cup {None}] /\ \A k \in Res : isStateOK'[k] => graph'[k] # None
    BY <1>1, <1>2, <1>4, <1>5 DEF TypeOK
  <2>3. next' \in [Res -> Vertex \cup {None}] /\ todo' \subseteq Res /\ pc' \in {"add", "failed"}
    BY DEF Written, WrittenInitFails, TypeOK
  <2> QED
    BY <1>3, <1>4, <2>1, <2>2, <2>3 DEF TypeOK
<1>7. InstructionsKept'
  BY <1>1, <1>3, <1>4 DEF InstructionsKept, TypeOK
<1>8. TornByCrash'
  BY <1>1, <1>4 DEF TornByCrash, TypeOK, n
<1>9. Done'
  <2>1. CASE Written
    <3>1. graph' = [graph EXCEPT ![n] = next[n]] /\ ~IsReversal(graph'[n])
      BY <2>1, <1>1, <1>2 DEF Written, IsReversal, TypeOK, n
    <3> QED
      BY <3>1, <1>1, <1>3, <1>4 DEF Done, TypeOK
  <2>2. CASE WrittenInitFails
    BY <2>2 DEF Done, WrittenInitFails
  <2> QED
    BY <2>1, <2>2
<1>10. Origin' /\ Writing' /\ SubsequentGraphReverses'
  BY <1>4 DEF Origin, Writing, SubsequentGraphReverses, Written, WrittenInitFails, TypeOK
<1>11. Planned'
  BY <1>1, <1>2, <1>3, <1>4 DEF Planned, Written, WrittenInitFails
<1>12. Progress'
  <2>1. CASE Written
    <3>1. graph' = [graph EXCEPT ![n] = next[n]] /\ next' = next /\ todo' = todo /\ pc' = "add"
      BY <2>1 DEF Written, n
    <3>2. \A k \in Res \ {n} : graph'[k] = graph[k]
      BY <3>1 DEF TypeOK
    <3>3. graph'[n] = next[n] /\ next[n] # None
      BY <3>1, <1>1, <1>2 DEF TypeOK
    <3> QED
      BY <3>1, <3>2, <3>3, <1>1 DEF Progress, n
  <2>2. CASE WrittenInitFails
    BY <2>2 DEF Progress, WrittenInitFails
  <2> QED
    BY <2>1, <2>2
<1> QED
  BY <1>6, <1>7, <1>8, <1>9, <1>10, <1>11, <1>12

LEMMA AddKeeps ==
    ASSUME IInv, NEW n \in Res, Add(n) \/ AddFails(n)
    PROVE  IInv'
<1> USE DEF IInv
<1>1. next[n] \in Vertex /\ str = None /\ graph[n] \in {None, next[n]}
  BY DEF Add, AddFails, TypeOK, Progress
<1>2. CASE Add(n)
  <2>1. TypeOK'
    BY <1>1, <1>2 DEF TypeOK, Add
  <2>2. InstructionsKept' /\ TornByCrash' /\ Origin' /\ Writing' /\ Planned'
        /\ SubsequentGraphReverses'
    BY <1>2 DEF Add, InstructionsKept, TornByCrash, Origin, Writing, Planned,
                SubsequentGraphReverses
  <2>3. Done'
    BY <1>1, <1>2 DEF Add, Done, TypeOK
  <2>4. Progress'
    BY <1>1, <1>2 DEF Add, Progress, TypeOK
  <2> QED
    BY <2>1, <2>2, <2>3, <2>4
<1>3. CASE AddFails(n)
  BY <1>1, <1>3 DEF AddFails, TypeOK, InstructionsKept, TornByCrash, Origin, Done, Writing,
       Planned, Progress, SubsequentGraphReverses
<1> QED
  BY <1>2, <1>3

LEMMA RunKeeps ==
    ASSUME IInv, NEW n \in Res, CheckApply(n) \/ Change(n) \/ Event(n)
    PROVE  IInv'
<1> USE DEF IInv
<1>1. CASE CheckApply(n)
  <2>1. graph[n] \in Vertex /\ pc = "run"
    BY <1>1 DEF CheckApply, TypeOK
  <2>2. Applied(graph[n].want, machine[n]) \subseteq Value \cup {Absent}
    <3>1. graph[n].want \in Wish /\ machine[n] \in Value \cup {Absent}
      BY <2>1 DEF Vertex, TypeOK
    <3> QED
      BY <3>1, AppliedType
  <2>3. \A k \in Res : owed'[k] \in {None, owed[k]}
    BY <1>1 DEF CheckApply, TypeOK
  <2>4. TypeOK'
    BY <1>1, <2>1, <2>2 DEF CheckApply, TypeOK
  <2>5. InstructionsKept' /\ SubsequentGraphReverses'
    BY <1>1, <2>3 DEF CheckApply, InstructionsKept, SubsequentGraphReverses
  <2>6. Done'
    BY <1>1, <2>3 DEF CheckApply, Done, IsReversal, TypeOK
  <2>7. TornByCrash' /\ Origin' /\ Writing' /\ Planned' /\ Progress'
    BY <1>1, <2>1 DEF CheckApply, TornByCrash, Origin, Writing, Planned, Progress
  <2> QED
    BY <2>4, <2>5, <2>6, <2>7
<1>2. CASE Change(n)
  BY <1>2 DEF Change, TypeOK, InstructionsKept, TornByCrash, Origin, Done, Writing,
       Planned, Progress, SubsequentGraphReverses
<1>3. CASE Event(n)
  BY <1>3 DEF Event, TypeOK, InstructionsKept, TornByCrash, Origin, Done, Writing,
       Planned, Progress, SubsequentGraphReverses
<1> QED
  BY <1>1, <1>2, <1>3

LEMMA LoopKeeps ==
    ASSUME IInv, Start \/ Removed \/ Committed \/ Shutdown \/ Stopped \/ Crash
    PROVE  IInv'
<1> USE DEF IInv
<1>1. CASE Start \/ Shutdown \/ Stopped
  BY <1>1 DEF Start, Shutdown, Stopped, TypeOK, InstructionsKept, TornByCrash, Origin, Done,
       Writing, Planned, Progress, SubsequentGraphReverses
<1>2. CASE Removed
  BY <1>2 DEF Removed, TypeOK, InstructionsKept, TornByCrash, Origin, Done,
       Writing, Planned, Progress, SubsequentGraphReverses
<1>3. CASE Committed
  <2>1. SubsequentGraphReverses'
    <3> SUFFICES ASSUME NEW n \in Res \ defined, owed[n] # None
                 PROVE  graph[n] = Decoded(owed[n])
      BY <1>3 DEF Committed, SubsequentGraphReverses
    <3>1. next[n] = Decoded(owed[n]) /\ next[n] # None
      BY <1>3, DecodedType DEF Committed, Planned, TypeOK
    <3> QED
      BY <1>3, <3>1 DEF Committed, Progress
  <2>2. TypeOK' /\ InstructionsKept' /\ TornByCrash' /\ Origin' /\ Done' /\ Writing'
        /\ Planned' /\ Progress'
    BY <1>3 DEF Committed, TypeOK, InstructionsKept, TornByCrash, Origin, Done,
         Writing, Planned, Progress
  <2> QED
    BY <2>1, <2>2
<1>4. CASE Crash
  BY <1>4 DEF Crash, TypeOK, InstructionsKept, TornByCrash, Origin, Done,
       Writing, Planned, Progress, SubsequentGraphReverses, IsReversal
<1> QED
  BY <1>1, <1>2, <1>3, <1>4

LEMMA NextKeeps ==
    ASSUME ~Overwrite, IInv, [Next]_vars
    PROVE  IInv'
<1>1. CASE NewGraph
  BY <1>1, NewGraphKeeps
<1>2. CASE \E n \in Res : Remove(n) \/ RemoveFails(n)
  BY <1>2, RemovalKeeps
<1>3. CASE \E n \in Res : ReversalWrite(n)
  BY <1>3, WriteKeeps
<1>4. CASE Written \/ WrittenInitFails
  BY <1>4, WrittenKeeps
<1>5. CASE \E n \in Res : Add(n) \/ AddFails(n)
  BY <1>5, AddKeeps
<1>6. CASE \E n \in Res : CheckApply(n) \/ Change(n) \/ Event(n)
  BY <1>6, RunKeeps
<1>7. CASE Start \/ Removed \/ Committed \/ Shutdown \/ Stopped \/ Crash
  BY <1>7, LoopKeeps
<1>8. CASE UNCHANGED vars
  BY <1>8 DEF vars, IInv, TypeOK, InstructionsKept, TornByCrash, Origin, Done,
       Writing, Planned, Progress, SubsequentGraphReverses
<1> QED
  BY <1>1, <1>2, <1>3, <1>4, <1>5, <1>6, <1>7, <1>8 DEF Next

LEMMA Invariance ==
    ASSUME ~Overwrite
    PROVE  Spec => []IInv
<1>1. IInv /\ [Next]_vars => IInv'
  BY NextKeeps
<1> QED
  BY InitHolds, <1>1, PTL DEF Spec

(* The type of the state of the reversals, for any resources and contents.   *)
THEOREM TypeCorrect ==
    ASSUME ~Overwrite
    PROVE  Spec => []TypeOK
<1>1. IInv => TypeOK
  BY DEF IInv
<1> QED
  BY Invariance, <1>1, PTL

(* Write ahead: until the reversal of a resource has run, its file holds the *)
(* instructions, or is the torn one that a crash within os.WriteFile left.   *)
THEOREM InstructionsSurvive ==
    ASSUME ~Overwrite
    PROVE  Spec => []InstructionsKept
<1>1. IInv => InstructionsKept
  BY DEF IInv
<1> QED
  BY Invariance, <1>1, PTL

(* Every running graph has the reversals of all that it no longer defines.   *)
THEOREM ReversalsAreAdded ==
    ASSUME ~Overwrite
    PROVE  Spec => []SubsequentGraphReverses
<1>1. IInv => SubsequentGraphReverses
  BY DEF IInv
<1> QED
  BY Invariance, <1>1, PTL

(* A file is torn by a crash between truncation and write, never by an error *)
(* of ReversalInit.                                                          *)
THEOREM OnlyCrashesTear ==
    ASSUME ~Overwrite
    PROVE  Spec => []TornByCrash
<1>1. IInv => TornByCrash
  BY DEF IInv
<1> QED
  BY Invariance, <1>1, PTL
=============================================================================

----------------------------- MODULE Semaphores -----------------------------
(* The semaphores that resources share (engine/graph/semaphore.go,           *)
(* util/semaphore/semaphore.go).  A vertex takes those of its Sema           *)
(* metaparameter one after the other before it works, and gives them all     *)
(* back when its Process returns.  An id is a number, for its place in the   *)
(* order of sort.Strings.                                                    *)
EXTENDS Integers, Sequences, FiniteSets, Functions

CONSTANTS
    Vertex,     \* the vertices
    SemaId,     \* the ids
    Sema,       \* the Sema metaparameter of each vertex, in any order
    SemaSize    \* how often a semaphore can be taken, as its id says

ASSUME SemaAssumption ==
    /\ SemaId \subseteq Int
    /\ Sema \in [Vertex -> Seq(SemaId)]
    /\ SemaSize \in [SemaId -> Nat \ {0}]

VARIABLES
    used,       \* per semaphore: how many are taken
    pos         \* per vertex: how many of its list it has taken

semaVars == <<used, pos>>

SemaInit ==
    /\ used = [id \in SemaId |-> 0]
    /\ pos = [v \in Vertex |-> 0]

\* mutant: the order of the list is kept
AsListed(v) == Sema[v]
\* q brings a list in order
Sorts(q, list) == \A i, j \in DOMAIN list : i < j => list[q[i]] <= list[q[j]]
\* sort.Strings
Sorted(v) ==
    LET list == Sema[v]
        order == CHOOSE q \in Bijection(DOMAIN list, DOMAIN list) : Sorts(q, list)
    IN  [i \in DOMAIN list |-> list[order[i]]]

HasAll(v) == pos[v] = Len(Sema[v])

\* P(1) of the next semaphore of the list, once there is room in its channel
SemaP(v) ==
    /\ ~HasAll(v)
    /\ LET id == Sorted(v)[pos[v] + 1] IN
        /\ used[id] < SemaSize[id]
        /\ used' = [used EXCEPT ![id] = @ + 1]
    /\ pos' = [pos EXCEPT ![v] = @ + 1]

\* how many of a semaphore the vertex has taken
Taken(v, id) == Cardinality({k \in 1..pos[v] : Sorted(v)[k] = id})

\* how many of a semaphore the vertex gives back
Released(v, id) == Cardinality({k \in DOMAIN Sema[v] : Sema[v][k] = id})

\* semaUnlock: V(1) for every semaphore of the list, which never waits
SemaUnlock(v) ==
    /\ used' = [id \in SemaId |-> used[id] - Released(v, id)]
    /\ pos' = [pos EXCEPT ![v] = 0]
=============================================================================

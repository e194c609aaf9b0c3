------------------------------- MODULE Pgraph -------------------------------
(* The graph library (pgraph/pgraph.go) as operators on a set of vertices vs *)
(* and a set of directed edges es (pairs of vertices).  The library stores   *)
(* them in maps whose iteration order is random, so an algorithm that walks  *)
(* a map is the set of the results it can return.                            *)
EXTENDS Integers, Sequences, FiniteSets, SequencesExt

OutgoingGraphVertices(es, v) == {e[2] : e \in {x \in es : x[1] = v}}
IncomingGraphVertices(es, v) == {e[1] : e \in {x \in es : x[2] = v}}

\* the vertices whose incoming edges have all been removed once l is listed
NoneRemaining(es, l, c) == {n \in c : IncomingGraphVertices(es, n) \subseteq ToSet(l)}

\* Kahn's algorithm: what can be in the list l and the stack s after k turns
Kahn(vs, es) ==
    LET turn[k \in 0..Cardinality(vs)] ==
            IF k = 0
            THEN {[l |-> <<>>, s |-> p] : p \in SetToSeqs(NoneRemaining(es, <<>>, vs))}
            ELSE UNION
                {LET v == Last(x.s)
                     l == Append(x.l, v)
                     ready == NoneRemaining(es, l, OutgoingGraphVertices(es, v))
                 IN  {[l |-> l, s |-> Front(x.s) \o p] : p \in SetToSeqs(ready)} :
                 x \in {y \in turn[k - 1] : y.s # <<>>}}
    IN  turn

\* the orders TopologicalSort can return; none if the graph has a cycle
TopologicalSort(vs, es) == {x.l : x \in Kahn(vs, es)[Cardinality(vs)]}

\* what can be reached from v along at least one edge
Descendants(vs, es, v) ==
    LET reach[k \in 1..Cardinality(vs)] ==
            IF k = 1 THEN OutgoingGraphVertices(es, v)
            ELSE reach[k - 1] \cup UNION {OutgoingGraphVertices(es, n) : n \in reach[k - 1]}
    IN  IF vs = {} THEN {} ELSE reach[Cardinality(vs)]

IsDag(vs, es) == \A v \in vs : v \notin Descendants(vs, es, v)

\* the paths that bfsShortestPath can return; none if b cannot be reached
bfsShortestPath(vs, es, a, b) ==
    LET path[k \in 0..Cardinality(vs)] ==
            IF k = 0 THEN {<<a>>}
            ELSE UNION {{Append(p, n) : n \in OutgoingGraphVertices(es, Last(p)) \ ToSet(p)} :
                        p \in path[k - 1]}
        found == {k \in 1..Cardinality(vs) : \E p \in path[k] : Last(p) = b}
    IN  IF found = {} THEN {}
        ELSE {p \in path[CHOOSE k \in found : \A m \in found : k <= m] : Last(p) = b}
=============================================================================

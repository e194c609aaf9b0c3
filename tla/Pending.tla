------------------------------ MODULE Pending -------------------------------
(* The pending graph between Load and Commit: AutoEdge adds the edges that   *)
(* the resources ask for, AutoGroup merges the vertices that can be managed  *)
(* together, and the main loop takes the result only if it is a DAG.         *)
(* Grouping tests every pair against a cache of the descendants and moves    *)
(* the edges of the vertex that goes; an edge that a path makes redundant is *)
(* merged into that path.                                                    *)
EXTENDS Pgraph, FiniteSetsExt

CONSTANTS
    Res,         \* the resources 1..N, numbered as RHVSort orders them
    Kinds,       \* what the kinds of the resources can be: functions from Res
    MaxNotify,   \* bound: edges of the program that notify
    MaxAuto      \* bound: automatic edges

VARIABLES
    pc,          \* "edges", "group", "check", then "ready" or "aborted"
    kind,        \* Res.Kind, as the sequence of its chunks
    loaded,      \* the edges of the program: all of them and those that notify
    auto,        \* history: the automatic edges
    vs, es,      \* nextGraph
    notify,      \*   its edges with Notify
    ij,          \* the pair that VertexNext looks at next, 0 .. N^2
    descendants, \* CachedNonReachabilityGrouper.descendants
    owner,       \* the vertex that a resource is grouped into, or itself
    sema         \* MetaParams.Sema of each vertex

vars == <<pc, kind, loaded, auto, vs, es, notify, ij, descendants, owner, sema>>

N == Cardinality(Res)
Pairs == {p \in Res \X Res : p[1] # p[2]}

ASSUME ResAssumption == N \in Nat \ {0} /\ Res = 1..N

\* a kind has a chunk, and RHVSort puts the longer kinds first
ASSUME KindsAssumption ==
    \A k \in Kinds :
        /\ k \in [Res -> Seq(STRING)]
        /\ \A v \in Res : k[v] # <<>> /\ \A w \in Res : v < w => Len(k[v]) >= Len(k[w])

\* Any acyclic graph of the program.  Each resource has a semaphore of its own.
Init ==
    /\ pc = "edges" /\ kind \in Kinds
    /\ \E e \in SUBSET Pairs :
         /\ IsDag(Res, e)
         /\ loaded \in [es : {e}, notify : UNION {kSubset(k, e) : k \in 0..Min({MaxNotify, Cardinality(e)})}]
    /\ auto = {} /\ vs = Res /\ es = loaded.es /\ notify = loaded.notify
    /\ ij = 0 /\ descendants = <<>>
    /\ owner = [v \in Res |-> v] /\ sema = [v \in Res |-> {v}]

(***************************************************************************)
(* AutoEdge                                                                *)
(***************************************************************************)

\* the edges that a resource can ask for, by the direction of its UIDs: a
\* package goes before its files, a parent directory or a fragment before a file
AutoEdges(v) ==
    IF kind[v] = <<"pkg">> THEN {p \in Pairs : p[1] = v /\ kind[p[2]] = <<"file">>}
    ELSE IF kind[v] = <<"file">> THEN {p \in Pairs : p[2] = v /\ kind[p[1]] = <<"file">>}
    ELSE {}

\* addEdgesByMatchingUIDS, for each resource: an edge that is already there is
\* overwritten by one that does not notify.  Whether there is a cycle now is checked
\* later.  AutoEdge and AutoGroup can be switched off for a deploy.
AutoEdge ==
    /\ pc = "edges" /\ pc' \in {"group", "check"}
    /\ \E found \in SUBSET UNION {AutoEdges(v) : v \in Res} :
         /\ Cardinality(found) <= MaxAuto
         /\ auto' = found /\ es' = es \cup found /\ notify' = notify \ found
    /\ UNCHANGED <<kind, loaded, vs, ij, descendants, owner, sema>>

(***************************************************************************)
(* AutoGroup                                                               *)
(***************************************************************************)
Chunk(v) == Head(kind[v])
Vi(k) == (k \div N) + 1
Vj(k) == (k % N) + 1

\* mutant: looks at each pair in one order only
VertexNextHalf(k) == {q \in k..(N * N - 1) : Vi(q) < Vj(q) /\ {Vi(q), Vj(q)} \subseteq vs}

\* the pairs from k on that VertexNext does not skip
VertexNext(k) ==
    {q \in k..(N * N - 1) : Chunk(Vi(q)) = Chunk(Vj(q)) /\ {Vi(q), Vj(q)} \subseteq vs}

\* Packages group with packages, and a hierarchical kind takes in its children.  A
\* resource that switches grouping off is one of a kind that does not group.
GroupCmp(v, w) ==
    \/ kind[v] = <<"pkg">> /\ kind[w] = <<"pkg">>
    \/ Chunk(v) = "http" /\ Len(kind[w]) > 1 /\ Front(kind[w]) = kind[v]

HasGroup(v) == \E u \in Res : u # v /\ owner[u] = v

VertexCmp(v, w) ==
    v # w /\ (kind[v] = kind[w] => ~HasGroup(w)) /\ GroupCmp(v, w)

\* the descendants of v, from the cache if they are there
Cached(d, v) ==
    [x \in DOMAIN d \cup {v} |-> IF x \in DOMAIN d THEN d[x] ELSE Descendants(vs, es, v)]

\* the cache after reachable(v, w) and, if that is false, reachable(w, v)
Looked(v, w) ==
    LET d == Cached(descendants, v)
    IN  IF w \in d[v] THEN d ELSE Cached(d, w)

VertexViable(v, w) == w \notin Looked(v, w)[v] /\ v \notin Looked(v, w)[w]

\* mutant: the edge that is there stays as it is
EdgeMergeFirst(n1, n2) == n1
EdgeMerge(n1, n2) == n1 \/ n2

\* the edges of a path
Along(p) == {<<p[k], p[k + 1]>> : k \in 1..(Len(p) - 1)}

\* an edge from a to b that notifies if n is added, or merged into a path from a to b
Reattach(g, a, b, n) ==
    LET paths == bfsShortestPath(vs, g.es, a, b)
    IN  IF paths = {}
        THEN {[es |-> g.es \cup {<<a, b>>},
               notify |-> IF n THEN g.notify \cup {<<a, b>>} ELSE g.notify]}
        ELSE {[es |-> g.es,
               notify |-> {e \in g.es : IF e \in Along(p) THEN EdgeMerge(e \in g.notify, n)
                                        ELSE e \in g.notify}] : p \in paths}

Without(g, e) == [es |-> g.es \ {e}, notify |-> g.notify \ {e}]

\* one turn of either loop: the edge e of w becomes one of v
Move(g, e, v, w) ==
    {Without(h, e) : h \in Reattach(g, IF e[1] = w THEN v ELSE e[1],
                                       IF e[2] = w THEN v ELSE e[2], e \in g.notify)}

\* the graphs that can result when the edges in list are moved from w to v
Moved(gs, list, v, w) ==
    LET moved[k \in 0..Len(list)] ==
            IF k = 0 THEN gs ELSE UNION {Move(g, list[k], v, w) : g \in moved[k - 1]}
    IN  moved[Len(list)]

\* VertexMerge: first the edges into w, then the edges out of it, each in any order
VertexMerge(v, w) ==
    LET start == Without(Without([es |-> es, notify |-> notify], <<v, w>>), <<w, v>>)
        into == {e \in start.es : e[2] = w}
        out == {e \in start.es : e[1] = w}
    IN  UNION {Moved(Moved({start}, a, v, w), b, v, w) : a \in SetToSeqs(into), b \in SetToSeqs(out)}

\* mutant: the cache outlives the merge
VertexTestKeeps(d, merged) == d
VertexTest(d, merged) == IF merged THEN <<>> ELSE d

Semas(v, w) == sema[v] \cup sema[w]

Merge(v, w) ==
    /\ VertexCmp(v, w) /\ VertexViable(v, w)
    /\ \E g \in VertexMerge(v, w) : es' = g.es /\ notify' = g.notify
    /\ vs' = vs \ {w}
    /\ owner' = [u \in Res |-> IF owner[u] = w THEN v ELSE owner[u]]
    /\ sema' = [sema EXCEPT ![v] = Semas(v, w)]
    /\ descendants' = VertexTest(Looked(v, w), TRUE)

Skip(v, w) ==
    /\ ~(VertexCmp(v, w) /\ VertexViable(v, w))
    /\ descendants' = VertexTest(IF VertexCmp(v, w) THEN Looked(v, w) ELSE descendants, FALSE)
    /\ UNCHANGED <<vs, es, notify, owner, sema>>

\* one turn of the loop
Group ==
    /\ pc = "group" /\ VertexNext(ij) # {}
    /\ LET q == Min(VertexNext(ij))
       IN  ij' = q + 1 /\ (Merge(Vi(q), Vj(q)) \/ Skip(Vi(q), Vj(q)))
    /\ UNCHANGED <<pc, kind, loaded, auto>>

\* the result is validated once, at the end
Grouped ==
    /\ pc = "group" /\ VertexNext(ij) = {}
    /\ ij' = N * N
    /\ pc' = IF TopologicalSort(vs, es) # {} THEN "check" ELSE "aborted"
    /\ UNCHANGED <<kind, loaded, auto, vs, es, notify, descendants, owner, sema>>

(***************************************************************************)
(* The main loop                                                           *)
(***************************************************************************)

\* mutant: the graph is taken as it is
CheckNothing ==
    /\ pc = "check" /\ pc' = "ready"
    /\ UNCHANGED <<kind, loaded, auto, vs, es, notify, ij, descendants, owner, sema>>

\* the check that also stands for the one that AutoEdge leaves out
Check ==
    /\ pc = "check"
    /\ pc' = IF TopologicalSort(vs, es) # {} THEN "ready" ELSE "aborted"
    /\ UNCHANGED <<kind, loaded, auto, vs, es, notify, ij, descendants, owner, sema>>

\* AutoEdges fails, or the deploy is cancelled
Abort ==
    /\ pc \in {"edges", "group"} /\ pc' = "aborted"
    /\ UNCHANGED <<kind, loaded, auto, vs, es, notify, ij, descendants, owner, sema>>

Next ==
    \/ AutoEdge \/ Group \/ Grouped \/ Check \/ Abort

Spec == Init /\ [][Next]_vars

(***************************************************************************)
(* Properties                                                              *)
(***************************************************************************)
Asked == loaded.es \cup auto

\* Every variable keeps its type; vertices that were merged away are gone from the
\* graph, and each group holds the semaphores of all its members.
TypeOK ==
    /\ pc \in {"edges", "group", "check", "ready", "aborted"}
    /\ vs \subseteq Res /\ es \subseteq vs \X vs /\ notify \subseteq es /\ ij \in 0..(N * N)
    /\ DOMAIN descendants \subseteq vs
    /\ owner \in [Res -> vs] /\ \A v \in vs : owner[v] = v /\ sema[v] = {u \in Res : owner[u] = v}

\* The order is still a strict one after any number of merges: what has to run before
\* something else still does and is never grouped with it, for VertexMerge drops an
\* edge only if a path stands for it; and no merge closes a cycle, although it trusts
\* a cache of the descendants.
OrderKept ==
    IsDag(Res, Asked) =>
        /\ IsDag(vs, es)
        /\ \A e \in Asked : owner[e[2]] \in Descendants(vs, es, owner[e[1]])

\* A notification that grouping starts with still arrives: when an edge is merged
\* into a path, every edge of the path notifies.
NotifyKept ==
    IsDag(Res, Asked) => \A e \in loaded.notify \ auto : owner[e[2]] \in Descendants(vs, notify, owner[e[1]])

\* The engine never gets a graph with a cycle.  One that the automatic edges close is
\* found at the end: the merges in between, made for a DAG, do not hide it.
OnlyDagsRun == pc = "ready" => IsDag(vs, es) /\ IsDag(Res, Asked)

\* Grouping is complete, over hierarchies too: a vertex that is left alone although
\* another one would take it in is ordered before or after the group of that one.
GroupedAsFarAsPossible ==
    pc \in {"check", "ready"} /\ ij = N * N =>
        \A w \in vs, v \in Res :
            GroupCmp(v, w) /\ owner[v] # w =>
                \/ w \in Descendants(vs, es, owner[v])
                \/ owner[v] \in Descendants(vs, es, w)

(***************************************************************************)
(* What the program asks for, and the code does not keep                   *)
(***************************************************************************)

\* A notification of the program arrives.
UserNotifyKept ==
    pc = "ready" =>
        \A e \in loaded.notify : owner[e[2]] \in Descendants(vs, notify, owner[e[1]])
=============================================================================

-------------------------------- MODULE Txn --------------------------------
(* Transactions on the function graph (lang/funcs/txn/txn.go), the reference *)
(* counts they keep (lang/funcs/ref/ref.go) and the graph operations of the  *)
(* function engine they call (lang/funcs/dage/dage.go), as operators on a    *)
(* record g:                                                                 *)
(*   node      the state of each vertex of the graph (Engine.state)          *)
(*   es        the edges, one triple <<from, to, arg>> for each arg name     *)
(*   refs      the reference counts: of a vertex f at <<f>>, of an edge at   *)
(*             its triple                                                    *)
(*   pend      the add and delete operations queued for the next interrupt   *)
(*   born      how many states each function has had, to tell them apart     *)
(*   interrupt a commit happened (Engine.interrupt)                          *)
(*   bad       a panic or an error that a comment calls a programming error  *)
(*   redone    history: a reversal was reversed, so what it had removed came  *)
(*             back (see ReverseTxn)                                         *)
EXTENDS Integers, Sequences, FiniteSets, SequencesExt, TLC

CountOf(c, x) == IF x \in DOMAIN c THEN c[x] ELSE 0

-----------------------------------------------------------------------------
(* Operations of a transaction.  [rev |-> TRUE] is an operation packed in an *)
(* opRev, which runs the reverse of the one it holds.                        *)
OpAddVertex(f) == [rev |-> FALSE, at |-> <<f>>]
OpAddEdge(f1, f2, arg) == [rev |-> FALSE, at |-> <<f1, f2, arg>>]

\* the vertices first, then the edges
AddGraph(vs, es) ==
    SetToSeq({OpAddVertex(f) : f \in vs}) \o SetToSeq({OpAddEdge(e[1], e[2], e[3]) : e \in es})

\* packing and unpacking; the Skip flag is never set: it is asked of the packed
\* operation, and opRev does not have one
RevOp(op) == [op EXCEPT !.rev = ~@]

\* what an operation counts: a vertex, or an edge and its two vertices
Touches(op) == IF Len(op.at) = 1 THEN {op.at} ELSE {op.at, <<op.at[1]>>, <<op.at[2]>>}

\* how many of the operations count x up, less how many count it down
Delta(ops, x) ==
    Cardinality({k \in DOMAIN ops : ~ops[k].rev /\ x \in Touches(ops[k])})
    - Cardinality({k \in DOMAIN ops : ops[k].rev /\ x \in Touches(ops[k])})

-----------------------------------------------------------------------------
(* The engine's side of the graph API. *)

\* a vertex that was just added: nothing called, nothing started
NewNode(n) == [inc |-> n, done |-> FALSE, result |-> <<>>, failed |-> FALSE, started |-> FALSE]

\* adding vertices: each gets a new state, and Init to run at the interrupt
AddVertices(g, fs) ==
    LET new == fs \ DOMAIN g.node
        inc(f) == CountOf(g.born, f) + 1
    IN  [g EXCEPT !.node = [f \in new |-> NewNode(inc(f))] @@ @,
                  !.born = [f \in new |-> inc(f)] @@ @,
                  !.pend = @ \o SetToSeq({[op |-> "add", f |-> f, inc |-> inc(f)] : f \in new})]

\* deleting vertices, with the edges they have left; Cleanup runs at the interrupt
DeleteVertices(g, fs) ==
    [g EXCEPT !.bad = @ \/ ~(fs \subseteq DOMAIN g.node),
              !.pend = @ \o SetToSeq({[op |-> "delete", f |-> f, inc |-> g.node[f].inc] :
                                      f \in fs \cap DOMAIN g.node}),
              !.node = [f \in DOMAIN @ \ fs |-> @[f]],
              !.es = {e \in @ : e[1] \notin fs /\ e[2] \notin fs}]

-----------------------------------------------------------------------------
\* the operations one after the other: counts, and what must be in the graph
RunOps(g, ops) ==
    LET touched == UNION {Touches(ops[k]) : k \in DOMAIN ops}
        added == {ops[k].at : k \in {j \in DOMAIN ops : ~ops[j].rev}}
        refs == [x \in touched |-> CountOf(g.refs, x) + Delta(ops, x)] @@ g.refs
        fs == {x[1] : x \in added} \cup {x[2] : x \in {y \in added : Len(y) = 3}}
    IN  [AddVertices(g, fs) EXCEPT
            !.refs = refs,
            !.es = @ \cup {x \in added : Len(x) = 3},
            !.bad = @ \/ \E x \in DOMAIN refs : refs[x] < 0]

\* mutant: the vertices that are no longer used stay in the graph
GCEdgesOnly(g) ==
    LET zero == {x \in DOMAIN g.refs : g.refs[x] = 0}
    IN  [g EXCEPT !.es = @ \ zero, !.refs = [x \in DOMAIN @ \ zero |-> @[x]]]

\* the edges with a count of zero, then the vertices with a count of zero; a
\* count of zero and no count are different
GC(g) ==
    LET zero == {x \in DOMAIN g.refs : g.refs[x] = 0}
        unused == {x[1] : x \in {y \in zero : Len(y) = 1}}
        inUse == \E e \in DOMAIN g.refs \ zero : Len(e) = 3 /\ {e[1], e[2]} \cap unused # {}
        missing == \E e \in zero : Len(e) = 3 /\ e \notin g.es
    IN  DeleteVertices([g EXCEPT !.bad = @ \/ inUse \/ missing,
                                 !.es = @ \ zero,
                                 !.refs = [x \in DOMAIN @ \ zero |-> @[x]]], unused)

\* commit, and the operations that would undo it
Commit(g, ops, rev) ==
    IF ops = <<>> THEN [g |-> g, rev |-> rev]
    ELSE [g   |-> [GC(RunOps(g, ops)) EXCEPT !.interrupt = TRUE],
          rev |-> [k \in DOMAIN ops |-> RevOp(ops[k])]]

\* commits what undoes the last commit; what undoes that again is remembered in
\* turn, and is what a second Reverse commits if nothing was committed in between
ReverseTxn(g, rev) ==
    Commit([g EXCEPT !.redone = @ \/ \E k \in DOMAIN rev : ~rev[k].rev], Reverse(rev), <<>>)
=============================================================================

----------------------------- MODULE FuncEngine -----------------------------
(* The function engine (lang/funcs/dage/dage.go) running one small program   *)
(* whose graph changes shape while it runs, as the program's inputs change.  *)
(* The functions that change the shape are those of lang/funcs/structs and   *)
(* lang/core/iter; they do it with transactions (module Txn).                *)
(*                                                                           *)
(* Program   expression                          shape follows               *)
(*  "if"     if src { if aux {a} else {b} } else { c(aux) }   src and aux    *)
(*  "map"    map over a list of length src, and src joined to aux    src     *)
(*  "except" src, or a fallback if src fails                 failure of src  *)
(*  "fail"   as "if", and aux fails for 1 with nobody to catch it            *)
(*  "for"    a for statement over a list of length src               src     *)
(*  "stmtif" an if statement on src without an else branch           src     *)
EXTENDS Txn, Pgraph

CONSTANTS
    Programs,    \* the programs a run chooses from
    MaxVal,      \* bound: a list has at most MaxVal elements
    MaxChanges   \* bound: how many events the functions send

ASSUME ConstantsOK ==
    /\ Programs \subseteq {"if", "map", "except", "fail", "for", "stmtif"}
    /\ MaxVal \in Nat /\ MaxChanges \in Nat

VARIABLES
    prog,       \* the program that runs
    g,          \* the graph and its reference counts, see Txn
    fn,         \* per function: what Init and Call keep in its struct
    val,        \* the values the streams have stored for Call to return
    changes,    \* how many events were sent
    pc,         \* where process() is: "top", "iter", "send" or "exit"
    at,         \* the loop index i (and start) into topoSort
    valid,      \* the table is complete in this iteration
    topo,       \* topoSort
    table,      \* the values found so far
    lastTable,  \* the last table that was sent
    ag,         \* the event queue
    streams,    \* the Stream goroutines that run, as <<function, state>>
    stopped,    \* those of them whose own context was cancelled
    ctx,        \* the context of Run was cancelled
    exit        \* "" while process() runs, then "ctx", "done" or "error"

graphVars == <<g, fn>>
envVars == <<val, changes>>
loopVars == <<at, valid, topo>>
tableVars == <<table, lastTable>>
streamVars == <<streams, stopped>>
vars == <<prog, g, fn, val, changes, pc, at, valid, topo, table, lastTable, ag,
          streams, stopped, ctx, exit>>

-----------------------------------------------------------------------------
(* Functions are triples so that the ones a for or a map makes anew can      *)
(* carry the generation they belong to and their index.                      *)
Src == <<"src", 0, 0>>        Aux == <<"aux", 0, 0>>
Dyn == <<"dyn", 0, 0>>        Out == <<"out", 0, 0>>
Inner == <<"inner", 0, 0>>    InnerOut == <<"innerOut", 0, 0>>
A == <<"a", 0, 0>>            B == <<"b", 0, 0>>     C == <<"c", 0, 0>>
Fallback == <<"fallback", 0, 0>>
Join == <<"join", 0, 0>>
Elem(gen, k) == <<"elem", gen, k>>
List(gen, n) == <<"list", gen, n>>

Streamable == {Src, Aux, A}
Inputs == {Src, Aux}
Shapers == {Dyn, Inner}
\* the values of an input: a list is given by its length, a condition is 0 or 1
Vals(f) == IF f = Src /\ prog \in {"map", "for"} THEN 0..MaxVal
           ELSE IF f = Aux /\ prog \notin {"if", "map", "fail"} THEN {0} ELSE 0..1
ElemArg(k) == <<"e1", "e2", "e3">>[k]

\* the arguments each function is declared with (Info().Sig)
Sig(f) ==
    CASE f[1] \in {"dyn", "inner", "c"} -> {"in"}
      [] f[1] \in {"out", "innerOut"} -> {"out", "dummy"}
      [] f[1] = "join" -> {"s", "t"}
      [] f[1] = "elem" -> IF prog = "map" THEN {"in", "dummy"} ELSE {"in"}
      [] f[1] = "list" -> {ElemArg(k) : k \in 1..f[3]}
      [] OTHER -> {}

\* mutant: no edge from the shaping function to the output it shapes
NoDummyStaticGraph(p) == [vs |-> {Src, Dyn, Out}, es |-> {<<Src, Dyn, "in">>}]

\* the graph the compiler makes of the program
StaticGraph(p) ==
    LET core == [vs |-> {Src, Dyn}, es |-> {<<Src, Dyn, "in">>}]
        expr == [vs |-> core.vs \cup {Out}, es |-> core.es \cup {<<Dyn, Out, "dummy">>}]
    IN  CASE p \in {"for", "stmtif"} -> core
          [] p \in {"if", "except", "fail"} -> expr
          [] p = "map" -> [vs |-> expr.vs \cup {Aux, Join},
                           es |-> expr.es \cup {<<Src, Join, "s">>, <<Aux, Join, "t">>}]

-----------------------------------------------------------------------------
(* What the shaping functions add to the graph for an input x. *)

Branch(f, out, vs, es) == AddGraph(vs, es) \o <<OpAddVertex(f), OpAddEdge(f, out, "out")>>

ExprIf(x) ==
    IF x > 0 THEN Branch(InnerOut, Out, {Aux, Inner, InnerOut},
                         {<<Aux, Inner, "in">>, <<Inner, InnerOut, "dummy">>})
             ELSE Branch(C, Out, {Aux, C}, {<<Aux, C, "in">>})
InnerIf(x) == IF x > 0 THEN Branch(A, InnerOut, {A}, {}) ELSE Branch(B, InnerOut, {B}, {})
ExprExcept(x) == IF x = 1 THEN Branch(Fallback, Out, {Fallback}, {}) ELSE Branch(Src, Out, {}, {})
StmtIf(x) == IF x > 0 THEN AddGraph({A}, {}) ELSE <<>>

Map(gen, n) ==
    <<OpAddVertex(List(gen, n)), OpAddEdge(List(gen, n), Out, "out")>>
    \o FlattenSeq([k \in 1..n |->
           <<OpAddVertex(Elem(gen, k)), OpAddEdge(Src, Elem(gen, k), "in"),
             OpAddEdge(Dyn, Elem(gen, k), "dummy"), OpAddEdge(Elem(gen, k), List(gen, n), ElemArg(k))>>])

\* the body of the loop is its variable: AppendToIterBody adds the vertex again
For(gen, n) ==
    FlattenSeq([k \in 1..n |->
        <<OpAddVertex(Elem(gen, k)), OpAddEdge(Src, Elem(gen, k), "in"), OpAddVertex(Elem(gen, k))>>])

Subgraph(f, x, gen) ==
    CASE f = Inner -> InnerIf(x)
      [] prog \in {"if", "fail"} -> ExprIf(x)
      [] prog = "except" -> ExprExcept(x)
      [] prog = "stmtif" -> StmtIf(x)
      [] prog = "map" -> Map(gen, x)
      [] prog = "for" -> For(gen, x)

-----------------------------------------------------------------------------
(* Reading the graph.  The engine caches these per vertex at the end of an   *)
(* interrupt; no vertex is visited between a commit and the next interrupt.  *)
Edges(f) == {e \in g.es : e[2] = f}
Incoming(f) == {e[1] : e \in Edges(f)}
HasOutgoing(f) == \E e \in g.es : e[1] = f
\* the value on an argument of f
Arg(f, arg) == g.node[(CHOOSE e \in Edges(f) : e[3] = arg)[1]].result

\* what a shaping function compares with the last call: the condition, whether
\* the argument is an error, or the length of the list
Key(f) ==
    LET from == CHOOSE x \in Incoming(f) : TRUE
        x == g.node[from].result[1]
    IN  CASE prog = "except" -> IF g.node[from].failed THEN 1 ELSE 0
          [] prog \in {"map", "for"} -> x
          [] OTHER -> IF x > 0 THEN 1 ELSE 0

\* what Call returns; values are flat sequences and <<>> is no value
Value(f) ==
    CASE f \in Inputs -> <<val[f]>>
      [] f \in Shapers -> <<10>>
      [] f = A -> <<11>>
      [] f = B -> <<12>>
      [] f = C -> <<13>> \o Arg(f, "in")
      [] f = Fallback -> <<14>>
      [] f \in {Out, InnerOut} -> Arg(f, "out")
      [] f = Join -> Arg(f, "s") \o Arg(f, "t")
      [] f[1] = "elem" -> Arg(f, "in") \o <<f[3]>>
      [] f[1] = "list" -> <<15>> \o FlattenSeq([k \in 1..f[3] |-> Arg(f, ElemArg(k))])

-----------------------------------------------------------------------------
\* Setup, and the transaction that adds the graph of the program
Init ==
    /\ prog \in Programs
    /\ LET empty == [node |-> <<>>, es |-> {}, refs |-> <<>>, pend |-> <<>>,
                     born |-> <<>>, interrupt |-> FALSE, bad |-> FALSE, redone |-> FALSE]
           s == StaticGraph(prog)
       IN  g = Commit(empty, AddGraph(s.vs, s.es), <<>>).g
    /\ fn = [f \in Streamable \cup Shapers |-> [last |-> -1, rev |-> <<>>, gen |-> 0, inc |-> 0]]
    /\ val \in {v \in [Inputs -> 0..MaxVal \cup {1}] : \A f \in Inputs : v[f] \in Vals(f)}
    /\ changes = 0
    /\ pc = "top" /\ at = 1 /\ valid = TRUE /\ topo = <<>>
    /\ table = <<>> /\ lastTable = <<>> /\ ag = <<>>
    /\ streams = {} /\ stopped = {}
    /\ ctx = FALSE /\ exit = ""

\* process() returns: Run cancels its context, and with it that of every stream
Return(why) ==
    /\ exit' = why /\ pc' = "exit" /\ ctx' = TRUE
    /\ UNCHANGED stopped

-----------------------------------------------------------------------------
(* The interrupt: queued operations, then a new topological sort. *)

\* the vertex joins the table; Init resets what its function remembers
ApplyAdd ==
    /\ pc = "top" /\ g.interrupt /\ g.pend # <<>> /\ Head(g.pend).op = "add"
    /\ LET f == Head(g.pend).f IN
        /\ table' = (f :> <<>>) @@ table
        /\ fn' = IF f \notin DOMAIN fn THEN fn
                 ELSE [fn EXCEPT ![f] = [@ EXCEPT !.last = -1, !.rev = <<>>, !.inc = Head(g.pend).inc]]
    /\ g' = [g EXCEPT !.pend = Tail(@)]
    /\ UNCHANGED <<prog, envVars, pc, loopVars, lastTable, ag, streamVars, ctx, exit>>

\* what deleting the vertex cancels
CancelsStream(f, n) == streams \cap {<<f, n>>}

\* the vertex leaves the table, its stream is cancelled, and Cleanup undoes
\* what a shaping function had added, which may queue more operations
ApplyDelete ==
    /\ pc = "top" /\ g.interrupt /\ g.pend # <<>> /\ Head(g.pend).op = "delete"
    /\ LET f == Head(g.pend).f
           rest == [g EXCEPT !.pend = Tail(@)]
           undo == ReverseTxn(rest, fn[f].rev)
       IN  /\ table' = [x \in DOMAIN table \ {f} |-> table[x]]
           /\ stopped' = stopped \cup CancelsStream(f, Head(g.pend).inc)
           /\ IF f \in Shapers
              THEN g' = undo.g /\ fn' = [fn EXCEPT ![f].rev = undo.rev]
              ELSE g' = rest /\ fn' = fn
    /\ UNCHANGED <<prog, envVars, pc, loopVars, lastTable, ag, streams, ctx, exit>>

\* the order is random where the graph leaves it open
Sort ==
    /\ pc = "top" /\ g.interrupt /\ g.pend = <<>>
    /\ topo' \in TopologicalSort(DOMAIN g.node, {<<e[1], e[2]>> : e \in g.es})
    /\ g' = [g EXCEPT !.interrupt = FALSE]
    /\ at' = 1 /\ valid' = TRUE /\ pc' = "iter"
    /\ UNCHANGED <<prog, fn, envVars, tableVars, ag, streamVars, ctx, exit>>

-----------------------------------------------------------------------------
(* Waiting for an event. *)

\* the vertex was deleted, or added anew with another state
IsStale(ev) == ev[1] \in DOMAIN g.node => g.node[ev[1]].inc # ev[2]

TakeEvent ==
    /\ pc = "top" /\ ~g.interrupt /\ ag # <<>> /\ ~IsStale(Head(ag))
    /\ at' = SelectInSeq(topo, LAMBDA f : f = Head(ag)[1])
    /\ ag' = Tail(ag) /\ valid' = TRUE /\ pc' = "iter"
    /\ UNCHANGED <<prog, graphVars, envVars, topo, tableVars, streamVars, ctx, exit>>

DropStaleEvent ==
    /\ pc = "top" /\ ~g.interrupt /\ ag # <<>> /\ IsStale(Head(ag))
    /\ ag' = Tail(ag)
    /\ UNCHANGED <<prog, graphVars, envVars, pc, loopVars, tableVars, streamVars, ctx, exit>>

CtxDone ==
    /\ ctx
    /\ (pc = "top" /\ ~g.interrupt) \/ pc = "send"
    /\ Return("ctx")
    /\ UNCHANGED <<prog, graphVars, envVars, loopVars, tableVars, ag, streams>>

-----------------------------------------------------------------------------
(* One vertex of the traversal.  Whatever happens to it, a function with a   *)
(* stream has it started on the first visit.                                 *)

Visited == topo[at]
\* the step visits f: its stream runs, and its state becomes what n leaves of it
Leave(f, gr, n) ==
    /\ g' = [gr EXCEPT !.node[f] = [n EXCEPT !.started = @ \/ f \in Streamable]]
    /\ streams' = IF f \in Streamable /\ ~n.started THEN streams \cup {<<f, n.inc>>} ELSE streams

NextVertex == /\ at' = at + 1
              /\ UNCHANGED <<prog, envVars, pc, topo, lastTable, ag, stopped, ctx, exit>>

Visiting == pc = "iter" /\ at <= Len(topo)

\* node.epoch >= epoch
EpochSkip ==
    /\ Visiting /\ g.node[Visited].done
    /\ Leave(Visited, g, g.node[Visited])
    /\ NextVertex /\ UNCHANGED <<fn, valid, table>>

\* as many arguments as vertices or as arguments on the edges between them
AllEdges(f) == Cardinality(Sig(f)) \in {Cardinality(Incoming(f)), Cardinality(Edges(f))}

EdgeSkip ==
    /\ Visiting /\ ~g.node[Visited].done /\ ~AllEdges(Visited)
    /\ valid' = FALSE
    /\ Leave(Visited, g, g.node[Visited])
    /\ NextVertex /\ UNCHANGED <<fn, table>>

Callable == Visiting /\ ~g.node[Visited].done /\ AllEdges(Visited)
IsExceptable(f) == f = Dyn /\ prog = "except"
Failed(f) == ~IsExceptable(f) /\ \E x \in Incoming(f) : g.node[x].failed
Starved(f) == \E x \in Incoming(f) : ~g.node[x].failed /\ g.node[x].result = <<>>

\* a vertex that got no value this epoch: nobody caught its failure if it is a sink
Fail(f) ==
    /\ table' = [table EXCEPT ![f] = <<>>]
    /\ Leave(f, g, [g.node[f] EXCEPT !.failed = TRUE, !.result = <<>>, !.done = TRUE])
    /\ IF HasOutgoing(f) THEN NextVertex
       ELSE Return("error") /\ UNCHANGED <<prog, envVars, at, topo, lastTable, ag>>
    /\ UNCHANGED <<fn, valid>>

PassFailureOn == Callable /\ Failed(Visited) /\ Fail(Visited)

NilSkip ==
    /\ Callable /\ Starved(Visited)
    /\ Leave(Visited, g, g.node[Visited])
    /\ NextVertex /\ UNCHANGED <<fn, valid, table>>

Calling == Callable /\ ~Failed(Visited) /\ ~Starved(Visited)
Reshapes(f) == f \in Shapers /\ Key(f) # fn[f].last
\* Call of an input of "except" or "fail" returns a catchable error for the value 1
Errs(f) == <<prog, f>> \in {<<"except", Src>>, <<"fail", Aux>>} /\ val[f] = 1
\* the element is not in the list: a panic, or a plain error
OutOfRange(f) == f[1] = "elem" /\ f[3] > Arg(f, "in")[1]

CallReturns ==
    /\ Calling
    /\ LET f == Visited IN
        /\ ~Reshapes(f) /\ ~Errs(f) /\ ~OutOfRange(f)
        /\ Leave(f, g, [g.node[f] EXCEPT !.failed = FALSE, !.result = Value(f), !.done = TRUE])
        /\ table' = [table EXCEPT ![f] = Value(f)]
    /\ NextVertex /\ UNCHANGED <<fn, valid>>

CallFails == Calling /\ Errs(Visited) /\ Fail(Visited)

CallPanics ==
    /\ Calling /\ OutOfRange(Visited)
    /\ Leave(Visited, g, [g.node[Visited] EXCEPT !.result = <<>>])
    /\ Return("error")
    /\ UNCHANGED <<prog, fn, envVars, loopVars, tableVars, ag>>

\* mutant: the old subgraph is not deleted first
ReplaceWithoutReverse(f, gr) ==
    Commit(gr, Subgraph(f, Key(f), fn[f].gen + 1), fn[f].rev)

\* Reverse, then the new subgraph, then Commit
ReplaceSubGraph(f, gr) ==
    LET undo == ReverseTxn(gr, fn[f].rev)
    IN  Commit(undo.g, Subgraph(f, Key(f), fn[f].gen + 1), undo.rev)

\* ErrInterrupt; the shaping function itself stays to be called again
CallReshapes ==
    /\ Calling /\ Reshapes(Visited)
    /\ LET f == Visited
           done == ReplaceSubGraph(f, [g EXCEPT !.node[f].result = <<>>])
       IN  /\ g' = [done.g EXCEPT !.interrupt = TRUE]
           /\ fn' = [fn EXCEPT ![f] = [@ EXCEPT !.last = Key(f), !.rev = done.rev, !.gen = @ + 1]]
    /\ pc' = "top"
    /\ UNCHANGED <<prog, envVars, loopVars, tableVars, ag, streamVars, ctx, exit>>

\* mutant: the epoch stays
SameEpoch(node) == node
\* epoch++: no vertex is done any more
NextEpoch(node) == [f \in DOMAIN node |-> [node[f] EXCEPT !.done = FALSE]]

\* the end of the traversal: the epoch moves on, and a table that is complete
\* and differs from the last one is sent
EndOfTraversal ==
    /\ pc = "iter" /\ at > Len(topo)
    /\ g' = [g EXCEPT !.node = NextEpoch(@)]
    /\ pc' = IF valid /\ table # lastTable THEN "send" ELSE "top"
    /\ UNCHANGED <<prog, fn, envVars, loopVars, tableVars, ag, streamVars, ctx, exit>>

Send ==
    /\ pc = "send"
    /\ lastTable' = table
    /\ pc' = "top"
    /\ UNCHANGED <<prog, graphVars, envVars, loopVars, table, ag, streamVars, ctx, exit>>

-----------------------------------------------------------------------------
(* The functions' own goroutines and the context of Run. *)

\* a stream stores a new value for Call and sends an event for the state its
\* function was last initialized with; its context may be cancelled by now
StreamEvent(f, n) ==
    /\ exit = "" /\ <<f, n>> \in streams /\ changes < MaxChanges
    /\ IF f \in Inputs THEN \E v \in Vals(f) \ {val[f]} : val' = [val EXCEPT ![f] = v]
                       ELSE val' = val
    /\ changes' = changes + 1
    /\ ag' = Append(ag, <<f, fn[f].inc>>)
    /\ UNCHANGED <<prog, graphVars, pc, loopVars, tableVars, streamVars, ctx, exit>>

\* mutant: the context of a stream is not a child of the engine's
OwnCtxDone(f, n) == <<f, n>> \in stopped
StreamCtxDone(f, n) == ctx \/ <<f, n>> \in stopped

StreamStops(f, n) ==
    /\ <<f, n>> \in streams /\ StreamCtxDone(f, n)
    /\ streams' = streams \ {<<f, n>>}
    /\ stopped' = stopped \ {<<f, n>>}
    /\ UNCHANGED <<prog, graphVars, envVars, pc, loopVars, tableVars, ag, ctx, exit>>

\* an error of a stream that was not cancelled cancels the engine
StreamErrs(f, n) ==
    /\ ~ctx /\ <<f, n>> \in streams \ stopped
    /\ streams' = streams \ {<<f, n>>}
    /\ ctx' = TRUE
    /\ UNCHANGED <<prog, graphVars, envVars, pc, loopVars, tableVars, ag, stopped, exit>>

Cancel ==
    /\ ~ctx
    /\ ctx' = TRUE
    /\ UNCHANGED <<prog, graphVars, envVars, pc, loopVars, tableVars, ag, streamVars, exit>>

\* process() has returned
Terminated == exit # "" /\ UNCHANGED vars

Process ==
    \/ ApplyAdd \/ ApplyDelete \/ Sort
    \/ TakeEvent \/ DropStaleEvent \/ CtxDone
    \/ EpochSkip \/ EdgeSkip \/ PassFailureOn \/ NilSkip
    \/ CallReturns \/ CallFails \/ CallPanics \/ CallReshapes
    \/ EndOfTraversal \/ Send

Next ==
    \/ Process
    \/ \E f \in Streamable : \E n \in 1..MaxChanges + 2 :
           StreamEvent(f, n) \/ StreamStops(f, n) \/ StreamErrs(f, n)
    \/ Cancel
    \/ Terminated

Spec == Init /\ [][Next]_vars

\* process() is not waiting for an event
Busy == exit = "" /\ (pc # "top" \/ g.interrupt \/ ag # <<>> \/ ctx)
\* every step of Process, and no other, does one of these
Moves == pc' # pc \/ at' # at \/ g' # g \/ Len(ag') < Len(ag)
AnyStreamStops == \E s \in streams : StreamStops(s[1], s[2])

\* process() keeps running while it is busy (weak fairness of Process, whose
\* guard is Busy and whose steps are Moves), Lang.Run reads every table, and a stream returns once its
\* context is cancelled
FairSpec ==
    /\ Spec
    /\ []<>~Busy \/ []<><<Moves>>_vars
    /\ WF_vars(AnyStreamStops)

-----------------------------------------------------------------------------
(* Properties. *)

Func ==
    {Src, Aux, Dyn, Out, Inner, InnerOut, A, B, C, Fallback, Join}
    \cup {Elem(n, k) : n \in 1..MaxChanges + 1, k \in 1..MaxVal}
    \cup {List(n, k) : n \in 1..MaxChanges + 1, k \in 0..MaxVal}

\* Types: values are sequences of numbers, edges join vertices of the graph,
\* and the sort lists functions.
TypeOK ==
    /\ prog \in Programs
    /\ DOMAIN g.node \subseteq Func
    /\ \A f \in DOMAIN g.node :
           /\ g.node[f].inc \in 1..MaxChanges + 2
           /\ g.node[f].done \in BOOLEAN /\ g.node[f].failed \in BOOLEAN
           /\ g.node[f].started \in BOOLEAN
    /\ \A e \in g.es : e[1] \in DOMAIN g.node /\ e[2] \in DOMAIN g.node
    /\ ToSet(topo) \subseteq Func
    /\ DOMAIN table \subseteq Func /\ DOMAIN lastTable \subseteq Func
    /\ \A f \in Inputs : val[f] \in Vals(f)
    /\ changes \in 0..MaxChanges
    /\ pc \in {"top", "iter", "send", "exit"} /\ at \in 1..Len(topo) + 1 /\ valid \in BOOLEAN
    /\ ctx \in BOOLEAN /\ exit \in {"", "ctx", "error"}

\* Every reference has an owner: the count of each vertex and of each edge is
\* what the transactions that can still be reversed (the program's, and those
\* of the shaping functions) will give back, so that no vertex outlives the
\* functions that asked for it and none is freed under them (ref.go, txn.go).
\* Excepted are the graphs in which a reversal was itself reversed: an if or a for
\* statement commits nothing for a false condition or an empty list, and the next
\* Reverse then brings back, and counts, what the last one had removed.
ReferencesHaveOwners ==
    LET s == StaticGraph(prog)
        held == AddGraph(s.vs, s.es)
        redo(ops) == [k \in DOMAIN ops |-> RevOp(ops[k])]
        owned(ops) == SelectSeq(ops, LAMBDA op : op.rev)
        all == held \o redo(owned(fn[Dyn].rev)) \o redo(owned(fn[Inner].rev))
    IN  /\ ~g.bad
        /\ g.redone \/
               /\ DOMAIN g.refs = g.es \cup {<<f>> : f \in DOMAIN g.node}
               /\ \A x \in DOMAIN g.refs : g.refs[x] = Delta(all, x)

\* process() waits for an event and none is queued
Settled == exit = "" /\ pc = "top" /\ ~g.interrupt /\ ag = <<>>

\* the functions that the program needs for the inputs it has
Needed ==
    LET x == val[Src] IN
    StaticGraph(prog).vs \cup
    CASE prog = "if" -> IF x > 0 THEN {Aux, Inner, InnerOut, IF val[Aux] > 0 THEN A ELSE B} ELSE {Aux, C}
      [] prog = "fail" -> IF x = 0 THEN {Aux, C}
                          ELSE {Aux, Inner, InnerOut} \cup IF val[Aux] > 0 THEN {} ELSE {B}
      [] prog = "except" -> IF x = 1 THEN {Fallback} ELSE {}
      [] prog = "map" -> {List(fn[Dyn].gen, x)} \cup {Elem(fn[Dyn].gen, k) : k \in 1..x}
      [] prog = "for" -> {Elem(fn[Dyn].gen, k) : k \in 1..x}
      [] prog = "stmtif" -> IF x > 0 THEN {A} ELSE {}

\* Once the engine has settled, the graph has the shape the inputs ask for: no
\* function of an abandoned branch or of an old list is left, and none is missing
\* (replaceSubGraph and Cleanup of lang/funcs/structs).  An if statement that was
\* false, or a for statement whose list was empty, breaks this: the code has no
\* transaction for them that could be reversed, so the one before it is undone twice.
ShapeFollowsInputs == Settled => DOMAIN g.node = Needed

\* what the program means: the values of its outputs, if it has any
Meaning ==
    LET x == val[Src] IN
    CASE prog = "fail" /\ val[Aux] = 1 -> <<>>
      [] prog \in {"if", "fail"} ->
            Out :> IF x = 0 THEN <<13, val[Aux]>> ELSE IF val[Aux] = 0 THEN <<12>> ELSE <<11>>
      [] prog = "except" -> Out :> IF x = 1 THEN <<14>> ELSE <<x>>
      [] prog = "map" -> (Out :> <<15>> \o FlattenSeq([k \in 1..x |-> <<x, k>>]))
                         @@ (Join :> <<x, val[Aux]>>)
      [] prog = "for" -> [f \in {Elem(fn[Dyn].gen, k) : k \in 1..x} |-> <<x, f[3]>>]
      [] prog = "stmtif" -> [f \in IF x = 0 THEN {} ELSE {A} |-> <<11>>]

Current == \A f \in DOMAIN Meaning : f \in DOMAIN lastTable /\ lastTable[f] = Meaning[f]

\* Once the engine has settled, the last table it sent holds what the program
\* means for the inputs of this moment: no event is lost to a stale state, a
\* skipped vertex, a table that was held back or an equal-looking table
\* (process() of dage.go).
TableIsCurrent == Settled => Current

\* The values of a table that is sent belong together ("All values in a
\* returned table should be part of the same epoch", dage.go): the join of two
\* inputs is the join of the values the table has for them.
TableIsConsistent ==
    prog = "map" /\ Join \in DOMAIN lastTable =>
        lastTable[Join] = lastTable[Src] \o lastTable[Aux]

\* Once the engine has settled, the streams that are not told to stop are those
\* of the functions in the graph, one each: a function that left and came back
\* has a new stream, one that left has none (deleteVertex, process()).
StreamsFollowGraph ==
    Settled => streams \ stopped = {<<f, g.node[f].inc>> : f \in Streamable \cap DOMAIN g.node}
               \/ ctx

\* Once the engine has settled, nothing of an earlier shape is left, in the graph
\* or running beside it (replaceSubGraph and deleteVertex), unless a reversal was
\* reversed before: ShapeFollowsInputs alone is not kept by the code.
GraphFollowsInputs == g.redone \/ (ShapeFollowsInputs /\ StreamsFollowGraph)

\* A program whose failures are all caught does not stop the function engine:
\* a failure goes to the except operator and not around it, and an element
\* function is not called with a list it is not part of.
NeverFails == exit = "error" => prog = "fail"

\* When the inputs stop changing, the engine comes to rest on the meaning of
\* the program, unless it is shut down (process() of dage.go).  The engine stops on
\* an error only if nobody catches it, or a for statement meets a shorter list.
ComesToRest ==
    <>[](exit = "ctx" \/ (exit = "error" /\ prog \in {"fail", "for"}) \/ (Settled /\ Current))

\* When its context is cancelled, or a stream fails, Run returns and leaves no
\* goroutine behind.
RunReturns == ctx ~> (exit # "" /\ streams = {})
=============================================================================

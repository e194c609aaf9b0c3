------------------------------ MODULE Reversal ------------------------------
(* Reversals (engine/graph/reverse.go): a resource with Meta:reverse leaves  *)
(* on disk, before it runs, the resource that undoes it.  When it is gone    *)
(* from the graph the engine adds the stored one in its place, and erases    *)
(* the file once that one has done its work.  The file outlives the program, *)
(* which may be stopped or crash between any two steps, also between the     *)
(* truncation and the write of os.WriteFile.                                 *)
(*                                                                           *)
(* The resource is a file (engine/resources/file.go): it wants a content, or *)
(* Absent, or leaves its state undefined and wants a content if it exists.   *)
(* The other reversible kind, net, is the case of one content.               *)
EXTENDS Naturals

CONSTANTS
    Res,         \* the names of resources
    Value,       \* what a file may contain
    Absent,      \* the file does not exist
    Exists,      \* the file exists, whatever it contains
    None,        \* no file, no vertex
    Torn,        \* a file that was truncated and not written
    Wants,       \* what the frontend may ask of the resource of each name
    Overwrite    \* ReversibleMeta.Overwrite, which no frontend sets

VARIABLES
    file,        \* the reversal stored in the state directory of a name
    machine,     \* the file that the resource of a name manages
    graph,       \* the vertex of each name in the running graph
    next,        \* and in the pending one
    isStateOK,   \* State.isStateOK of each vertex
    pc,          \* where the main loop is
    todo,        \* names that GraphSync still has to remove or to add
    str,         \* the reversal that is being written, and for which name
    noop,        \* mainDeploy.Noop of the last graph
    defined,     \* the names the last graph of the frontend defines
    owed         \* history: what has to be undone, and how

vars == <<file, machine, graph, next, isStateOK, pc, todo, str, noop, defined, owed>>

\* an undefined state with a content, or with none (Absent): nothing to do
Edit == [content : Value \cup {Absent}]
Wish == Value \cup {Absent, Exists} \cup Edit

Stored == [want : Wish, noop : BOOLEAN]
Vertex == [want : Wish, noop : BOOLEAN, reverse : BOOLEAN, reversal : BOOLEAN]
Nothing == [n \in Res |-> None]

ASSUME ValueAssumption ==
    /\ {Absent, Exists} \cap (Value \cup Edit) = {} /\ Absent # Exists /\ Value \cap Edit = {}
    /\ None \notin Stored \cup Vertex \cup [res : Res, is : Stored]
    /\ Torn \notin Stored /\ Torn # None
    /\ Wants \in [Res -> SUBSET Wish] /\ Overwrite \in BOOLEAN

IsReversal(v) == v # None /\ v.reversal

Init ==
    /\ file = Nothing /\ machine \in [Res -> Value \cup {Absent}]
    /\ graph = Nothing /\ next = Nothing /\ isStateOK = [n \in Res |-> FALSE]
    /\ pc = "off" /\ todo = {} /\ str = None /\ noop = FALSE /\ defined = {} /\ owed = Nothing

(***************************************************************************)
(* The pending graph                                                       *)
(***************************************************************************)
Start ==
    /\ pc = "off" /\ pc' = "wait"
    /\ UNCHANGED <<file, machine, graph, next, isStateOK, todo, str, noop, defined, owed>>

\* what the frontend asks of each resource if it defines it
Asked == {w \in [Res -> Wish] : \A n \in Res : w[n] \in Wants[n]}

\* what a graph of the frontend says of one name; the global noop is applied here
Wanted(w, r) == [want |-> w, noop |-> noop', reverse |-> r, reversal |-> FALSE]

\* FileRes.Reversed, of a vertex and what it finds on the machine
Reversed(v, m) ==
    [want |-> IF v.want \in Edit THEN [content |-> m]
              ELSE IF v.want # Absent THEN Absent
              ELSE IF m # Absent THEN m ELSE Exists,
     noop |-> v.noop]

\* a stored reversal becomes a vertex, which cannot be reversed in turn
Decoded(s) == [want |-> s.want, noop |-> s.noop, reverse |-> FALSE, reversal |-> TRUE]

\* mutant: looks for the resource in the graph that is about to go
ReversalsOfRunning(g) ==
    [n \in Res |-> IF graph[n] = None /\ g[n] = None /\ file[n] # None
                   THEN Decoded(file[n]) ELSE g[n]]

\* a name that the new graph does not define is reversed if there is a file
Reversals(g) ==
    [n \in Res |-> IF g[n] = None /\ file[n] # None THEN Decoded(file[n]) ELSE g[n]]

\* A graph of the frontend is made ready.  One file that cannot be decoded
\* makes Reversals fail and the graph is aborted, whatever it contains.
NewGraph ==
    /\ pc \in {"wait", "run"} /\ \A n \in Res : file[n] # Torn
    /\ noop' \in BOOLEAN
    /\ \E d \in SUBSET Res, w \in Asked, r \in SUBSET Res :
         /\ defined' = d
         /\ next' = Reversals([n \in Res |-> IF n \in d THEN Wanted(w[n], n \in r) ELSE None])
    \* the ones that differ, and of those that do not the ones to be reloaded after an error
    /\ \E reload \in SUBSET Res :
         todo' = {n \in Res : graph[n] # None /\ (graph[n] # next'[n] \/ n \in reload)}
    /\ pc' = "remove"
    /\ UNCHANGED <<file, machine, graph, isStateOK, str, owed>>

(***************************************************************************)
(* Commit: every removal before every addition                             *)
(***************************************************************************)

\* mutant: erases without asking for success
ReversalCleanupAlways(n) ==
    file' = IF IsReversal(graph[n]) THEN [file EXCEPT ![n] = None] ELSE file

\* did we successfully reverse?  only then the file is erased
ReversalCleanup(n) ==
    file' = IF IsReversal(graph[n]) /\ isStateOK[n] THEN [file EXCEPT ![n] = None] ELSE file

\* the Worker has ended, State.Cleanup erases the file, the state is freed
Remove(n) ==
    /\ pc \in {"remove", "unload"} /\ n \in todo
    /\ todo' = todo \ {n}
    /\ ReversalCleanup(n)
    /\ graph' = [graph EXCEPT ![n] = None]
    /\ isStateOK' = [isStateOK EXCEPT ![n] = FALSE]
    /\ UNCHANGED <<machine, next, pc, str, noop, defined, owed>>

\* A Cleanup that fails ends the commit, and the file may be left.  While the
\* program exits this is a removal, or none, followed by Crash.
RemoveFails(n) ==
    /\ pc = "remove" /\ n \in todo
    /\ pc' = "failed" /\ todo' = {} /\ next' = Nothing
    /\ \/ ReversalCleanup(n)
       \/ UNCHANGED file
    /\ graph' = [graph EXCEPT ![n] = None]
    /\ isStateOK' = [isStateOK EXCEPT ![n] = FALSE]
    /\ UNCHANGED <<machine, str, noop, defined, owed>>

Removed ==
    /\ pc = "remove" /\ todo = {}
    /\ pc' = "add" /\ todo' = {n \in Res : next[n] # None /\ graph[n] = None}
    /\ UNCHANGED <<file, machine, graph, next, isStateOK, str, noop, defined, owed>>

\* an existing file must be the same, unless it may be overwritten
MayWrite(n) ==
    file[n] = None \/ Overwrite \/ file[n] = Reversed(next[n], machine[n])

\* what Reversed returns is fixed first, then os.WriteFile truncates the file
ReversalWrite(n) ==
    /\ pc = "add" /\ n \in todo /\ next[n].reverse /\ MayWrite(n)
    /\ pc' = "write" /\ todo' = todo \ {n}
    /\ str' = [res |-> n, is |-> Reversed(next[n], machine[n])]
    /\ file' = [file EXCEPT ![n] = Torn]
    /\ UNCHANGED <<machine, graph, next, isStateOK, noop, defined, owed>>

\* From now on the resource may run, and has to be undone if it is no dry run.
\* What was owed before has not been undone yet and stays.
Owes(n, s) == IF owed[n] = None /\ ~s.noop THEN [owed EXCEPT ![n] = s] ELSE owed

\* ... and writes it; the Init of the resource follows
Written ==
    /\ pc = "write" /\ pc' = "add" /\ str' = None
    /\ file' = [file EXCEPT ![str.res] = str.is]
    /\ graph' = [graph EXCEPT ![str.res] = next[str.res]]
    /\ owed' = Owes(str.res, str.is)
    /\ UNCHANGED <<machine, next, isStateOK, todo, noop, defined>>

WrittenInitFails ==
    /\ pc = "write" /\ pc' = "failed" /\ str' = None /\ todo' = {} /\ next' = Nothing
    /\ file' = [file EXCEPT ![str.res] = str.is]
    /\ UNCHANGED <<machine, graph, isStateOK, noop, defined, owed>>

\* a resource that is not to be reversed, or a reversal
Add(n) ==
    /\ pc = "add" /\ n \in todo /\ ~next[n].reverse
    /\ todo' = todo \ {n}
    /\ graph' = [graph EXCEPT ![n] = next[n]]
    /\ UNCHANGED <<file, machine, next, isStateOK, pc, str, noop, defined, owed>>

\* Reversed, the comparison with the pending file or the Init of the resource fails
AddFails(n) ==
    /\ pc = "add" /\ n \in todo
    /\ pc' = "failed" /\ todo' = {} /\ next' = Nothing
    /\ UNCHANGED <<file, machine, graph, isStateOK, str, noop, defined, owed>>

Committed ==
    /\ pc = "add" /\ todo = {} /\ pc' = "run" /\ next' = Nothing
    /\ UNCHANGED <<file, machine, graph, isStateOK, todo, str, noop, defined, owed>>

(***************************************************************************)
(* The graph runs                                                          *)
(***************************************************************************)

\* what CheckApply makes of the machine; it fails to put a content into a file
\* that is not there if the state is undefined
Applied(w, m) ==
    CASE w \in Edit /\ w.content = Absent -> {m}
      [] w \in Edit /\ w.content # Absent -> IF m = Absent THEN {} ELSE {w.content}
      [] w = Exists -> IF m = Absent THEN Value ELSE {m}
      [] OTHER -> {w}

\* in noop mode, and when it fails, CheckApply changes nothing here
CheckApply(n) ==
    /\ pc = "run" /\ graph[n] # None /\ ~graph[n].noop /\ ~isStateOK[n]
    /\ \E m \in Applied(graph[n].want, machine[n]) : machine' = [machine EXCEPT ![n] = m]
    /\ isStateOK' = [isStateOK EXCEPT ![n] = TRUE]
    /\ owed' = IF graph[n].reversal THEN [owed EXCEPT ![n] = None] ELSE owed
    /\ UNCHANGED <<file, graph, next, pc, todo, str, noop, defined>>

\* somebody else changes the machine, and Watch notices at some time
Change(n) ==
    /\ \E m \in Value \cup {Absent} : machine' = [machine EXCEPT ![n] = m]
    /\ UNCHANGED <<file, graph, next, isStateOK, pc, todo, str, noop, defined, owed>>

Event(n) ==
    /\ pc = "run" /\ isStateOK[n]
    /\ isStateOK' = [isStateOK EXCEPT ![n] = FALSE]
    /\ UNCHANGED <<file, machine, graph, next, pc, todo, str, noop, defined, owed>>

(***************************************************************************)
(* The end of the program                                                  *)
(***************************************************************************)

\* Shutdown commits the empty graph, to which no reversals are added
Shutdown ==
    /\ pc \in {"wait", "run", "failed"}
    /\ pc' = "unload" /\ todo' = {n \in Res : graph[n] # None}
    /\ UNCHANGED <<file, machine, graph, next, isStateOK, str, noop, defined, owed>>

Stopped ==
    /\ pc = "unload" /\ todo = {} /\ pc' = "off"
    /\ UNCHANGED <<file, machine, graph, next, isStateOK, todo, str, noop, defined, owed>>

\* only the disk and the machine survive
Crash ==
    /\ pc # "off" /\ pc' = "off"
    /\ graph' = Nothing /\ next' = Nothing /\ isStateOK' = [n \in Res |-> FALSE]
    /\ todo' = {} /\ str' = None
    /\ UNCHANGED <<file, machine, noop, defined, owed>>

Next ==
    \/ Start \/ NewGraph \/ Removed \/ Written \/ WrittenInitFails \/ Committed
    \/ Shutdown \/ Stopped \/ Crash
    \/ \E n \in Res :
         \/ Remove(n) \/ RemoveFails(n) \/ ReversalWrite(n) \/ Add(n) \/ AddFails(n)
         \/ CheckApply(n) \/ Change(n) \/ Event(n)

Spec == Init /\ [][Next]_vars

(***************************************************************************)
(* Properties                                                              *)
(***************************************************************************)

\* Every variable keeps its type; only a running graph has states that are OK.
TypeOK ==
    /\ file \in [Res -> Stored \cup {None, Torn}]
    /\ machine \in [Res -> Value \cup {Absent}]
    /\ graph \in [Res -> Vertex \cup {None}] /\ next \in [Res -> Vertex \cup {None}]
    /\ isStateOK \in [Res -> BOOLEAN] /\ \A n \in Res : isStateOK[n] => graph[n] # None
    /\ pc \in {"off", "wait", "remove", "add", "write", "run", "failed", "unload"}
    /\ todo \subseteq Res /\ noop \in BOOLEAN /\ defined \subseteq Res
    /\ str \in [res : Res, is : Stored] \cup {None} /\ (pc = "write") = (str # None)
    /\ owed \in [Res -> Stored \cup {None}]

\* As long as the effect of a resource has not been undone, its file says how:
\* ReversalInit writes it ahead and ReversalCleanup erases it only after success,
\* over graph swaps, failed commits, restarts and crashes.  The exception is a
\* file that a crash has left truncated.
InstructionsKept ==
    \A n \in Res : owed[n] # None => file[n] \in {owed[n], Torn}

\* When a graph runs that no longer defines a resource whose effect has not been
\* undone, its reversal is part of that graph.
SubsequentGraphReverses ==
    pc = "run" => \A n \in Res \ defined : owed[n] # None => graph[n] = Decoded(owed[n])

\* An empty file makes every later graph fail; it comes from a crash within the
\* write and from nothing else.
TornByCrash ==
    \A n \in Res : file[n] = Torn => pc \in {"off", "wait", "unload"} \/ (pc = "write" /\ str.res = n)

(***************************************************************************)
(* What the documentation says, and the code does not do                   *)
(***************************************************************************)

\* docs/documentation.md, --noop: "Globally force all resources into no-op mode".
NoopIsNoop ==
    [][noop /\ (\E n \in Res : ~isStateOK[n] /\ isStateOK'[n]) => machine' = machine]_vars

\* The file is never lost: what is owed can be undone, also after a crash.
NeverTorn == \A n \in Res : owed[n] # None => file[n] = owed[n]
=============================================================================

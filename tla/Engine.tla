------------------------------ MODULE Engine ------------------------------
(***************************************************************************)
(* How the graph of resources is replaced while it runs: the main loop     *)
(* (lib/main.go) takes graphs from the GAPI, pauses the engine, and        *)
(* Engine.Commit (engine/graph/engine.go) removes, adds and starts         *)
(* vertices around pgraph.GraphSync; Shutdown commits an empty graph.      *)
(*                                                                         *)
(* A vertex is a resource pointer: <<name, load>> is what the graph that   *)
(* arrived as number load has for that name. Its Worker is reduced to      *)
(* what Commit sees of it; module Worker has the details. One goroutine    *)
(* at a time drives the engine (first the main loop, then the one that     *)
(* runs Shutdown), so pc is the place of that one.                         *)
(***************************************************************************)
EXTENDS Naturals

CONSTANTS
    Name,         \* kind and name of a resource
    Kind,
    KindOf,       \* the kind of each name
    Background,   \* the kinds that implement BackgroundRes
    Rewatch,      \* names with Meta:rewatch
    MaxLoads      \* bound: graphs that arrive

ASSUME KindAssumption == KindOf \in [Name -> Kind] /\ Background \subseteq Kind
ASSUME RewatchAssumption == Rewatch \subseteq Name
ASSUME LoadsAssumption == MaxLoads \in Nat

Vertex == Name \X (1..MaxLoads)
NoVertex == <<>>
NoKind == <<>>

\* a kind is a string
ASSUME NoKindAssumption == NoKind \notin Kind

VARIABLES
    graph,        \* Engine.graph
    nextGraph,    \* Engine.nextGraph, empty for nil
    same,         \* names whose vertex in nextGraph compares equal to the old one
    state,        \* the keys of Engine.state
    isPaused,     \* State.paused
    worker,       \* the Worker of each vertex
    workerErr,    \* vertices with an error in State.workerErr
    removed,      \* vertices whose removeDone and resumeSignal are closed
    senders,      \* Engine.senders
    metas,        \* the keys of Engine.metas
    bg,           \* Engine.bgState and the goroutine of each kind
    booting,      \* the kind that StartBackground waits for
    oldKinds,     \* Commit: backgroundKinds
    dels,         \* GraphSync: vertexDels that are left
    adds,         \* GraphSync: vertexAdds that are left
    start,        \* Commit: the vertices of its start functions
    free,         \* Commit: the vertices of its free functions
    victim,       \* the vertex that vertexRemoveFn waits for
    left,         \* vertices that Pause or Resume has yet to visit
    paused,       \* Engine.paused
    convergerPaused, \* Coordinator.paused
    pc,           \* where the goroutine that drives the engine is
    started,      \* local to the main loop
    leaving,      \* has the main loop decided to return ?
    gapi,         \* may gapiChan send a graph ?
    loads,        \* graphs that have arrived
    ctxDone,      \* is the context of Run cancelled ?
    deployChan,   \* "open", or "closed" with deployCtx cancelled
    failures,     \* history: what went wrong with the engine paused
    panicked      \* "no", or what the program died of

graphVars  == <<graph, nextGraph, same>>
vertexVars == <<state, isPaused, worker, workerErr, removed>>
indexVars  == <<senders, metas>>
bgVars     == <<bg, booting>>
commitVars == <<oldKinds, dels, adds, start, free, victim>>
driverVars == <<left, paused, convergerPaused, started, leaving>>
loopVars   == <<pc, driverVars>>
mainVars   == <<gapi, loads, ctxDone, deployChan>>
vars == <<graphVars, vertexVars, indexVars, bgVars, commitVars, loopVars,
          mainVars, failures, panicked>>

NameOf(v) == v[1]
Names(V) == {NameOf(v) : v \in V}
\* the background functions that a graph needs
Kinds(V) == {KindOf[n] : n \in Names(V)} \cap Background

Running == {"live", "failed", "ended"}    \* the Worker has not returned
Done == {"failed", "ended", "exited"}     \* its doneCtx is cancelled

\* "The engine starts off running (unpaused) but with an empty graph."
Init ==
    /\ graph = {} /\ nextGraph = {} /\ same = {}
    /\ state = {} /\ isPaused = [v \in Vertex |-> FALSE]
    /\ worker = [v \in Vertex |-> "none"] /\ workerErr = {} /\ removed = {}
    /\ senders = {} /\ metas = {}
    /\ bg = [k \in Kind |-> "off"] /\ booting = NoKind
    /\ oldKinds = {} /\ dels = {} /\ adds = {} /\ start = {} /\ free = {}
    /\ victim = NoVertex /\ left = {}
    /\ paused = FALSE /\ convergerPaused = FALSE
    /\ pc = "select" /\ started = TRUE /\ leaving = FALSE
    /\ gapi = FALSE /\ loads = 0 /\ ctxDone = FALSE /\ deployChan = "open"
    /\ failures = {} /\ panicked = "no"

Alive == panicked = "no"
Goto(from, to) == Alive /\ pc = from /\ pc' = to

Panic(why) == panicked' = why

-----------------------------------------------------------------------------
(* The main loop                                                           *)

\* a deploy brings a GAPI, whose Init may fail
Deploy ==
    /\ Alive /\ pc = "select" /\ deployChan = "open"
    /\ \E ok \in BOOLEAN : gapi' = ok
    /\ UNCHANGED <<graphVars, vertexVars, indexVars, bgVars, commitVars,
                   loopVars, loads, ctxDone, deployChan, failures, panicked>>

\* converger.Pause panics when it is paused
PauseConverger(next) ==
    IF convergerPaused
      THEN Panic("already paused") /\ UNCHANGED <<convergerPaused, left, pc>>
      ELSE /\ convergerPaused' = TRUE /\ left' = graph /\ pc' = next
           /\ UNCHANGED panicked

\* a graph arrives, and the operations on the pending graph (Load, Validate,
\* Apply, AutoEdge, AutoGroup, Reversals) succeed; when one of them fails the
\* graph is aborted and nothing has changed
NewGraph ==
    /\ Alive /\ pc = "select" /\ gapi /\ loads < MaxLoads
    /\ loads' = loads + 1
    /\ \E N \in SUBSET Name :
         /\ nextGraph' = N \X {loads + 1}
         /\ \E S \in SUBSET (N \cap Names(graph)) : same' = S
    /\ PauseConverger("pausing")
    /\ UNCHANGED <<graph, vertexVars, indexVars, bgVars, commitVars, paused,
                   started, leaving, gapi, ctxDone, deployChan, failures>>

\* deployChan is closed: pause, then return
DeployExited ==
    /\ Alive /\ pc = "select" /\ deployChan = "closed"
    /\ leaving' = TRUE /\ gapi' = FALSE
    /\ IF started THEN PauseConverger("pausing")
                  ELSE pc' = "shutdown" /\ UNCHANGED <<convergerPaused, left, panicked>>
    /\ UNCHANGED <<graphVars, vertexVars, indexVars, bgVars, commitVars, paused,
                   started, loads, ctxDone, deployChan, failures>>

\* Abort, cancelCause, and wait for deployChan to exit; Shutdown has nobody to
\* tell, and waits for the Workers
Fail(what) ==
    /\ failures' = failures \cup {what} /\ ctxDone' = TRUE
    /\ nextGraph' = IF leaving THEN nextGraph ELSE {}
    /\ pc' = IF leaving THEN "waiting" ELSE "select"

-----------------------------------------------------------------------------
(* Engine.Pause and Engine.Resume                                          *)

\* State.Pause: the Worker answers, or doneCtx does
PauseVertex(v) ==
    /\ Alive /\ pc = "pausing" /\ v \in left
    /\ \/ /\ worker[v] \in {"live", "failed"} /\ ~isPaused[v]
          /\ isPaused' = [isPaused EXCEPT ![v] = TRUE] /\ UNCHANGED panicked
       \/ worker[v] \in Done /\ UNCHANGED <<isPaused, panicked>>
       \/ /\ isPaused[v] /\ worker[v] \notin Done
          /\ Panic("already paused") /\ UNCHANGED isPaused
    /\ left' = left \ {v}
    /\ UNCHANGED <<graphVars, state, worker, workerErr, removed, indexVars,
                   bgVars, commitVars, paused, convergerPaused, pc, started,
                   leaving, mainVars, failures>>

\* mutant: does not wait for the rest
AnyPaused == TRUE
AllPaused == left = {}

Paused ==
    /\ Goto("pausing", IF leaving THEN "shutdown" ELSE "sendrecv") /\ AllPaused
    /\ paused' = TRUE /\ started' = (started /\ leaving)
    /\ UNCHANGED <<graphVars, vertexVars, indexVars, bgVars, commitVars, left,
                   convergerPaused, leaving, mainVars, failures, panicked>>

\* State.Resume
ResumeVertex(v) ==
    /\ Alive /\ pc = "resuming" /\ v \in left
    /\ \/ /\ worker[v] \in {"live", "failed"} /\ isPaused[v]
          /\ isPaused' = [isPaused EXCEPT ![v] = FALSE] /\ UNCHANGED panicked
       \/ worker[v] \in Done /\ UNCHANGED <<isPaused, panicked>>
       \/ /\ ~isPaused[v] /\ worker[v] \notin Done
          /\ Panic("not paused or exited") /\ UNCHANGED isPaused
    /\ left' = left \ {v}
    /\ UNCHANGED <<graphVars, state, worker, workerErr, removed, indexVars,
                   bgVars, commitVars, paused, convergerPaused, pc, started,
                   leaving, mainVars, failures>>

\* the engine, then the converger
Resumed ==
    /\ Goto("resuming", "select") /\ left = {}
    /\ paused' = FALSE /\ convergerPaused' = FALSE /\ started' = TRUE
    /\ UNCHANGED <<graphVars, vertexVars, indexVars, bgVars, commitVars, left,
                   leaving, mainVars, failures, panicked>>

-----------------------------------------------------------------------------
(* Commit                                                                  *)

\* Engine.SendRecv, on the paused graph
SendRecv ==
    /\ Goto("sendrecv", "sync")
    /\ UNCHANGED <<graphVars, vertexVars, indexVars, bgVars, commitVars,
                   driverVars, mainVars, failures, panicked>>

SendRecvFails ==
    /\ Alive /\ pc = "sendrecv" /\ Fail("sendrecv")
    /\ UNCHANGED <<graph, same, vertexVars, indexVars, bgVars, commitVars,
                   driverVars, gapi, loads, deployChan, panicked>>

\* vertexCmpFn: equal, and no error that rewatch would reload
Keeps(v) ==
    /\ NameOf(v) \in Names(nextGraph) \cap same
    /\ ~(v \in workerErr /\ NameOf(v) \in Rewatch)

\* GraphSync compares everything before it changes anything
GraphSync ==
    /\ Goto("sync", "removing")
    /\ oldKinds' = Kinds(state)
    /\ dels' = {v \in graph : ~Keeps(v)}
    /\ adds' = {w \in nextGraph : ~\E v \in graph : NameOf(v) = NameOf(w) /\ Keeps(v)}
    /\ start' = {} /\ free' = {}
    /\ UNCHANGED <<graphVars, vertexVars, indexVars, bgVars, victim, driverVars,
                   mainVars, failures, panicked>>

\* mutant: the sender stays in the index
deleteNoSenders(v) == senders
deleteSenders(v) == {s \in senders : NameOf(s) # NameOf(v)}
addSenders(v) == {s \in senders : NameOf(s) # NameOf(v)} \cup {v}

\* vertexRemoveFn closes removeDone and resumeSignal, and waits for the Worker
vertexRemoveFn(v) ==
    /\ Alive /\ pc = "removing" /\ v \in dels
    /\ senders' = deleteSenders(v)
    /\ IF v \in removed
         THEN Panic("close of closed channel") /\ UNCHANGED <<removed, victim, pc>>
         ELSE removed' = removed \cup {v} /\ victim' = v /\ pc' = "wait" /\ UNCHANGED panicked
    /\ UNCHANGED <<graphVars, state, isPaused, worker, workerErr, metas, bgVars,
                   oldKinds, dels, adds, start, free, driverVars, mainVars,
                   failures>>

\* waits[vertex].Wait()
WorkerReturned(v) == worker[v] \notin Running

Cleanup ==
    /\ Goto("wait", "removing") /\ WorkerReturned(victim)
    /\ dels' = dels \ {victim} /\ free' = free \cup {victim} /\ victim' = NoVertex
    /\ UNCHANGED <<graphVars, vertexVars, indexVars, bgVars, oldKinds, adds,
                   start, driverVars, mainVars, failures, panicked>>

CleanupFails ==
    /\ Alive /\ pc = "wait" /\ WorkerReturned(victim)
    /\ Fail("cleanup") /\ victim' = NoVertex
    /\ UNCHANGED <<graph, same, vertexVars, indexVars, bgVars, oldKinds, dels,
                   adds, start, free, driverVars, gapi, loads, deployChan,
                   panicked>>

\* mutant: State.Init does not set paused
InitRunning(v) == isPaused
\* State.Init leaves the vertex paused
InitPaused(v) == [isPaused EXCEPT ![v] = TRUE]

vertexAddFn(v) ==
    /\ Alive /\ pc = "removing" /\ dels = {} /\ v \in adds
    /\ senders' = addSenders(v) /\ state' = state \cup {v}
    /\ isPaused' = InitPaused(v)
    /\ adds' = adds \ {v} /\ start' = start \cup {v}
    /\ UNCHANGED <<graphVars, worker, workerErr, removed, metas, bgVars,
                   oldKinds, dels, free, victim, loopVars, mainVars, failures,
                   panicked>>

\* Validate or Init fails, after the sender was added
vertexAddFnFails(v) ==
    /\ Alive /\ pc = "removing" /\ dels = {} /\ v \in adds
    /\ senders' = addSenders(v) /\ Fail("init")
    /\ UNCHANGED <<graph, same, vertexVars, metas, bgVars, commitVars,
                   driverVars, gapi, loads, deployChan, panicked>>

\* mutant: the metas of what was replaced are dropped, too
CollectReplaced == metas \ Names(free)
\* activeMetas: what was there, less what was removed, with what was added
CollectMetas == metas \cap ((Names(state) \ Names(free)) \cup Names(start))

\* GraphSync succeeds and swaps the graph; unused metas are collected
Swap ==
    /\ Goto("removing", "background") /\ dels = {} /\ adds = {}
    /\ graph' = (graph \ free) \cup start
    /\ metas' = CollectMetas
    /\ UNCHANGED <<nextGraph, same, vertexVars, senders, bgVars, commitVars,
                   driverVars, mainVars, failures, panicked>>

StartBackground(k) ==
    /\ Alive /\ pc = "background" /\ booting = NoKind
    /\ k \in Kinds(graph) /\ bg[k] = "off"
    /\ bg' = [bg EXCEPT ![k] = "running"] /\ booting' = k
    /\ UNCHANGED <<graphVars, vertexVars, indexVars, commitVars, loopVars,
                   mainVars, failures, panicked>>

BackgroundReady ==
    /\ Alive /\ booting # NoKind /\ bg[booting] = "running"
    /\ booting' = NoKind
    /\ UNCHANGED <<graphVars, vertexVars, indexVars, bg, commitVars, loopVars,
                   mainVars, failures, panicked>>

\* a background function returns by itself, before or after it was ready; an error
\* cancels Run
BackgroundExits(k) ==
    /\ Alive /\ bg[k] = "running"
    /\ bg' = [bg EXCEPT ![k] = "dead"]
    /\ \E err \in BOOLEAN : ctxDone' = (ctxDone \/ err)
    /\ UNCHANGED <<graphVars, vertexVars, indexVars, booting, commitVars,
                   loopVars, gapi, loads, deployChan, failures, panicked>>

\* mutant: waits for nothing but the background function
StartBackgroundWaits == FALSE /\ UNCHANGED vars

\* deployCtx is cancelled while StartBackground waits
StartBackgroundFails ==
    /\ Alive /\ booting # NoKind /\ deployChan = "closed"
    /\ bg' = [bg EXCEPT ![booting] = "off"] /\ booting' = NoKind
    /\ Fail("background")
    /\ UNCHANGED <<graph, same, vertexVars, indexVars, commitVars, driverVars,
                   gapi, loads, deployChan, panicked>>

BackgroundDone ==
    /\ Goto("background", "starting") /\ booting = NoKind
    /\ \A k \in Kinds(graph) : bg[k] # "off"
    /\ UNCHANGED <<graphVars, vertexVars, indexVars, bgVars, commitVars,
                   driverVars, mainVars, failures, panicked>>

\* a start function: the Worker finds or makes its metas, and waits to be resumed
StartWorker(v) ==
    /\ Alive /\ pc = "starting" /\ v \in start
    /\ worker' = [worker EXCEPT ![v] = "live"] /\ metas' = metas \cup {NameOf(v)}
    /\ start' = start \ {v}
    /\ UNCHANGED <<graphVars, state, isPaused, workerErr, removed, senders,
                   bgVars, oldKinds, dels, adds, free, victim, loopVars,
                   mainVars, failures, panicked>>

Freed(v) == state \ {v}

Free(v) ==
    /\ Alive /\ pc = "starting" /\ start = {} /\ v \in free
    /\ state' = Freed(v) /\ free' = free \ {v}
    /\ UNCHANGED <<graphVars, isPaused, worker, workerErr, removed, indexVars,
                   bgVars, oldKinds, dels, adds, start, victim, loopVars,
                   mainVars, failures, panicked>>

FreesDone ==
    /\ Goto("starting", "stopping") /\ start = {} /\ free = {}
    /\ nextGraph' = {}
    /\ UNCHANGED <<graph, same, vertexVars, indexVars, bgVars, commitVars,
                   driverVars, mainVars, failures, panicked>>

\* mutant: stops the kinds that were there, whether or not they are still used
UnusedForgotten == {k \in oldKinds : bg[k] # "off"}
Unused == {k \in oldKinds \ Kinds(graph) : bg[k] # "off"}

\* StopBackground: state.err is never set (background.go), so it cannot fail
StopBackground(k) ==
    /\ Alive /\ pc = "stopping" /\ k \in Unused
    /\ bg' = [bg EXCEPT ![k] = "off"]
    /\ UNCHANGED <<graphVars, vertexVars, indexVars, booting, commitVars,
                   loopVars, mainVars, failures, panicked>>

\* Commit returns; the exporter prunes, and the engine is resumed
Committed ==
    /\ Goto("stopping", IF leaving THEN "waiting" ELSE "resuming") /\ Unused = {}
    /\ left' = graph
    /\ UNCHANGED <<graphVars, vertexVars, indexVars, bgVars, commitVars, paused,
                   convergerPaused, started, leaving, mainVars, failures,
                   panicked>>

PruneFails ==
    /\ Alive /\ pc = "stopping" /\ Unused = {} /\ ~leaving
    /\ Fail("prune")
    /\ UNCHANGED <<graph, same, vertexVars, indexVars, bgVars, commitVars,
                   driverVars, gapi, loads, deployChan, panicked>>

-----------------------------------------------------------------------------
(* Shutdown                                                                *)

\* loads an empty graph and commits it
Shutdown ==
    /\ Goto("shutdown", "sync")
    /\ nextGraph' = {} /\ same' = {}
    /\ UNCHANGED <<graph, vertexVars, indexVars, bgVars, commitVars, driverVars,
                   mainVars, failures, panicked>>

\* obj.wg.Wait(), for every Worker
ShutdownReturns ==
    /\ Goto("waiting", "exited")
    /\ \A v \in Vertex : worker[v] \notin Running
    /\ UNCHANGED <<graphVars, vertexVars, indexVars, bgVars, commitVars,
                   driverVars, mainVars, failures, panicked>>

-----------------------------------------------------------------------------
(* The Workers, and the world around the main loop                         *)

\* a Worker that is not paused fails for good, or Watch has nothing more to do
WorkerStops(v) ==
    /\ Alive /\ worker[v] = "live" /\ ~isPaused[v]
    /\ \E how \in {"failed", "ended"} : worker' = [worker EXCEPT ![v] = how]
    /\ UNCHANGED <<graphVars, state, isPaused, workerErr, removed, indexVars,
                   bgVars, commitVars, loopVars, mainVars, failures, panicked>>

\* removeDone ends it wherever it is
WorkerRemoved(v) ==
    /\ Alive /\ worker[v] = "live" /\ v \in removed
    /\ worker' = [worker EXCEPT ![v] = "ended"]
    /\ UNCHANGED <<graphVars, state, isPaused, workerErr, removed, indexVars,
                   bgVars, commitVars, loopVars, mainVars, failures, panicked>>

\* vertexAddFn or a free function is at work
WritesState ==
    \/ pc = "removing" /\ dels = {} /\ adds # {}
    \/ pc = "starting" /\ start = {} /\ free # {}

\* the Worker returns and stores its error; it reads Engine.state and
\* Engine.waits without the locks that Commit writes them under, or the other
\* way round, which the Go runtime may answer with a fatal error
WorkerExits(v) ==
    /\ Alive /\ worker[v] \in {"failed", "ended"} /\ (isPaused[v] => v \in removed)
    /\ worker' = [worker EXCEPT ![v] = "exited"]
    /\ workerErr' = IF worker[v] = "failed" THEN workerErr \cup {v} ELSE workerErr
    /\ \/ UNCHANGED panicked
       \/ WritesState /\ Panic("concurrent map read and map write")
    /\ UNCHANGED <<graphVars, state, isPaused, removed, indexVars, bgVars,
                   commitVars, loopVars, mainVars, failures>>

\* a signal, a GAPI that asks for an exit, an error of some other goroutine
Cancel ==
    /\ Alive /\ ~ctxDone /\ ctxDone' = TRUE
    /\ UNCHANGED <<graphVars, vertexVars, indexVars, bgVars, commitVars,
                   loopVars, gapi, loads, deployChan, failures, panicked>>

\* the deploy goroutine closes deployChan and cancels deployCtx
DeployCloses ==
    /\ Alive /\ ctxDone /\ deployChan = "open" /\ deployChan' = "closed"
    /\ UNCHANGED <<graphVars, vertexVars, indexVars, bgVars, commitVars,
                   loopVars, gapi, loads, ctxDone, failures, panicked>>

Terminated == (pc = "exited" \/ ~Alive) /\ UNCHANGED vars

PauseNext == Paused \/ Resumed \/ \E v \in Vertex : PauseVertex(v) \/ ResumeVertex(v)
SyncNext ==
    \/ SendRecv \/ SendRecvFails \/ GraphSync \/ Cleanup \/ CleanupFails
    \/ Swap
    \/ \E v \in Vertex : vertexRemoveFn(v) \/ vertexAddFn(v) \/ vertexAddFnFails(v)
CommitNext ==
    \/ StartBackgroundFails \/ BackgroundDone \/ FreesDone
    \/ Committed \/ PruneFails \/ Shutdown \/ ShutdownReturns
    \/ \E k \in Kind : StartBackground(k) \/ StopBackground(k)
    \/ \E v \in Vertex : StartWorker(v) \/ Free(v)
EngineNext == PauseNext \/ SyncNext \/ CommitNext
WorkerNext == \E v \in Vertex : WorkerStops(v) \/ WorkerRemoved(v) \/ WorkerExits(v)
MainNext == Deploy \/ NewGraph \/ DeployExited
WorldNext ==
    Cancel \/ DeployCloses \/ BackgroundReady \/ \E k \in Kind : BackgroundExits(k)

Next == MainNext \/ EngineNext \/ WorkerNext \/ WorldNext \/ Terminated

Spec == Init /\ [][Next]_vars

(***************************************************************************)
(* The goroutine that drives the engine goes on where it can; a Worker     *)
(* that is to end does; the deploy goroutine sees the cancelled context;   *)
(* a closed deployChan is picked in the end, whatever the GAPI sends (Go   *)
(* selects at random). Nothing has to fail, and no Worker, GAPI or user    *)
(* has to stop on its own.                                                 *)
(***************************************************************************)
Fairness ==
    /\ WF_vars(EngineNext) /\ SF_vars(DeployExited)
    /\ \A v \in Vertex : WF_vars(WorkerRemoved(v)) /\ WF_vars(WorkerExits(v))
    /\ WF_vars(DeployCloses)

FairSpec == Spec /\ Fairness

(***************************************************************************)
(* Properties                                                              *)
(***************************************************************************)

Places == {"select", "pausing", "sendrecv", "sync", "removing", "wait",
           "background", "starting", "stopping", "resuming", "shutdown",
           "waiting", "exited"}
Failures == {"sendrecv", "cleanup", "init", "background", "prune"}
Panics == {"no", "already paused", "not paused or exited", "close of closed channel",
           "concurrent map read and map write"}

VertexTypeOK ==
    /\ graph \subseteq Vertex /\ nextGraph \subseteq Vertex /\ same \subseteq Name
    /\ state \subseteq Vertex /\ isPaused \in [Vertex -> BOOLEAN]
    /\ worker \in [Vertex -> {"none", "exited"} \cup Running]
    /\ workerErr \subseteq Vertex /\ removed \subseteq Vertex
    /\ senders \subseteq Vertex /\ metas \subseteq Name
CommitTypeOK ==
    /\ bg \in [Kind -> {"off", "running", "dead"}] /\ booting \in Kind \cup {NoKind}
    /\ oldKinds \subseteq Background /\ dels \subseteq Vertex /\ adds \subseteq Vertex
    /\ start \subseteq Vertex /\ free \subseteq Vertex /\ victim \in Vertex \cup {NoVertex}
MainTypeOK ==
    /\ left \subseteq Vertex /\ paused \in BOOLEAN /\ convergerPaused \in BOOLEAN
    /\ pc \in Places /\ started \in BOOLEAN /\ leaving \in BOOLEAN
    /\ gapi \in BOOLEAN /\ loads \in 0..MaxLoads /\ ctxDone \in BOOLEAN
    /\ deployChan \in {"open", "closed"}
    /\ failures \subseteq Failures /\ panicked \in Panics

\* Type invariant; every vertex of the graph has a state, so that none of the
\* lookups obj.state[vertex] of Pause, Resume and Commit yields nil.
TypeOK == VertexTypeOK /\ CommitTypeOK /\ MainTypeOK /\ graph \subseteq state

\* As long as no step of the main loop has failed with the engine paused, no order
\* of graphs, worker failures, deploys and the exit makes Pause, Resume or a
\* removal panic.
NoPanicUnlessFailed ==
    failures = {} => panicked \in {"no", "concurrent map read and map write"}

\* "No CheckApply methods may run when we are paused": while the graph is changed,
\* no live Worker is outside of its pause.
NobodyRunsDuringCommit ==
    pc \notin {"select", "pausing", "resuming", "waiting", "exited"} =>
        \A v \in Vertex : worker[v] = "live" => isPaused[v]

\* "wait for exit before starting new graph!": the replacement of a resource is
\* not started before the old one has returned and was cleaned up.
OneWorkerPerName ==
    \A v, w \in Vertex :
        v # w /\ NameOf(v) = NameOf(w) => ~(worker[v] \in Running /\ worker[w] \in Running)

\* Commit has the graph to itself: while it runs, every Worker of the old graph is
\* paused, and no two Workers of one resource run, then or at any other time
\* (Engine.Pause waits for each vertex, vertexRemoveFn for the Worker it ends).
CommitIsExclusive == NobodyRunsDuringCommit /\ OneWorkerPerName

\* "We want the background up first since Watch might want to use something from
\* the Background", and it is stopped after the last Watch of its kind is gone.
BackgroundCoversWatch ==
    \A v \in Vertex : worker[v] \in Running /\ KindOf[NameOf(v)] \in Background =>
        bg[KindOf[NameOf(v)]] # "off" /\ booting # KindOf[NameOf(v)]

\* A resumed engine has exactly what its graph needs: a state, a started Worker
\* and a sender for each vertex, none of them removed, the retry budget of each
\* resource, and its background functions. Nothing of an earlier graph is left.
GraphInstalled ==
    pc = "select" /\ started =>
        /\ state = graph /\ senders = graph /\ metas = Names(graph)
        /\ removed \cap graph = {}
        /\ \A v \in graph : worker[v] # "none" /\ (worker[v] = "live" => ~isPaused[v])
        /\ {k \in Kind : bg[k] # "off"} = Kinds(graph)

\* A resource that is in the old and in the new graph keeps its metas, and with
\* them what is left of its retries, even if it is replaced.
RetriesSurviveReplacement ==
    [][Names(graph) \cap Names(graph') \cap metas \subseteq metas']_vars

\* When Shutdown returns and nothing had failed, all is gone.
ExitIsClean ==
    pc = "exited" /\ failures = {} =>
        /\ graph = {} /\ state = {} /\ senders = {} /\ metas = {}
        /\ \A v \in Vertex : worker[v] \notin Running
        /\ \A k \in Kind : bg[k] = "off"

\* Once Run is cancelled the program ends, also if it has to abort a commit that
\* waits for a background function, as long as every resource cleans up; and it
\* leaves nothing behind unless something had failed.
ShutdownCompletes ==
    ctxDone ~> (pc = "exited" /\ ExitIsClean) \/ ~Alive \/ "cleanup" \in failures

(***************************************************************************)
(* What comments say, and the code does not do                             *)
(***************************************************************************)

\* Engine.Shutdown "waits for all the resources to exit before returning", and it
\* returns, also if the Cleanup of some resource fails.
ShutdownAlwaysCompletes == ctxDone ~> pc = "exited" \/ ~Alive

\* Coordinator.Pause "should not be called on an already paused coordinator", and
\* the main loop, after a failure, is to "wait for deployChan to exit".
NeverPausedTwice == panicked # "already paused"
=============================================================================

---------------------------- MODULE EngineProofs ----------------------------
(* The engine replaces its graph safely for any set of resources, kinds and  *)
(* background functions, and any sequence of graphs, worker failures, failed *)
(* commits and exits.                                                        *)
EXTENDS Engine, TLAPS

(***************************************************************************)
(* The inductive invariant                                                 *)
(***************************************************************************)

CommitPlaces == {"sync", "removing", "wait", "background", "starting", "stopping"}
\* where Commit has done nothing yet, or everything
IdlePlaces == Places \ {"removing", "wait", "background", "starting", "stopping"}

UniqueNames(V) == \A v, w \in V : NameOf(v) = NameOf(w) => v = w
\* the kinds whose background function was started, and not stopped since
On == {k \in Kind : bg[k] # "off"}

\* what a place says about the main loop: after a failure it only waits for the
\* deploy goroutine, with the engine paused
Control ==
    /\ pc = "select" => /\ ~leaving
                        /\ failures = {} => started /\ ~convergerPaused
                        /\ failures # {} => ~started /\ convergerPaused
    /\ pc # "select" => convergerPaused
    /\ pc \in {"pausing", "sendrecv", "resuming"} => failures = {}
    /\ pc \in {"sendrecv", "resuming"} => ~leaving /\ ~started
    /\ pc \in {"shutdown", "waiting", "exited"} => leaving
    /\ pc \in CommitPlaces => IF leaving THEN nextGraph = {} ELSE failures = {} /\ ~started

\* a graph that has not arrived yet has left no trace
Fresh ==
    \A v \in Vertex :
        v[2] > loads => v \notin graph /\ v \notin removed /\ worker[v] = "none"

\* every Worker belongs to the graph, which has one vertex for a name
Owned == UniqueNames(graph) /\ \A v \in Vertex : worker[v] \in Running => v \in graph

\* the graph to install is new, until it is installed
Pending ==
    pc \in {"sendrecv", "sync", "removing", "wait"} \/ (pc = "pausing" /\ ~leaving) =>
        /\ UniqueNames(nextGraph)
        /\ \A w \in nextGraph : /\ w[2] \leq loads
                               /\ w \notin graph /\ w \notin removed /\ worker[w] = "none"

\* GraphSync: what is replaced is to be removed, or was
Syncing ==
    pc \in {"removing", "wait"} =>
        /\ dels \subseteq graph /\ free \subseteq graph
        /\ adds \subseteq nextGraph /\ start \subseteq nextGraph /\ start \subseteq state
        /\ \A w \in start : isPaused[w]
        /\ \A v \in graph : \A w \in adds \cup start :
             NameOf(v) = NameOf(w) => v \in dels \/ v \in free
        /\ \A v \in free : worker[v] \notin Running
        /\ pc = "wait" => victim \in dels

Swapped ==
    pc \in {"background", "starting"} =>
        start \subseteq graph /\ free \cap graph = {} /\ \A w \in start : isPaused[w]

\* who is paused
Quiet ==
    /\ pc = "pausing" \/ pc = "resuming" => left \subseteq graph
    /\ pc = "pausing" =>
         \A v \in Vertex : worker[v] = "live" => isPaused[v] \/ v \in left
    /\ pc \in CommitPlaces \cup {"sendrecv", "shutdown"} \/ (pc = "select" /\ ~started) =>
         \A v \in Vertex : worker[v] = "live" => isPaused[v]

\* a background function is up before the Workers of its kind
Booted ==
    /\ booting # NoKind => pc = "background"
    /\ pc = "starting" => Kinds(graph) \subseteq On

\* The rest holds as long as nothing has failed with the engine paused.

Installed ==
    pc \in IdlePlaces /\ failures = {} =>
        /\ state = graph /\ senders = graph /\ metas = Names(graph)
        /\ removed \cap graph = {}
        /\ \A v \in graph : worker[v] # "none"
        /\ On = Kinds(graph)
        /\ pc = "select" => \A v \in graph : worker[v] = "live" => ~isPaused[v]
        /\ pc = "pausing" => \A v \in left : worker[v] = "live" => ~isPaused[v]
        /\ pc = "resuming" => /\ \A v \in left : worker[v] = "live" => isPaused[v]
                              /\ \A v \in graph \ left : worker[v] = "live" => ~isPaused[v]
        /\ pc \in {"waiting", "exited"} => graph = {}

\* what vertexRemoveFn has ended
Gone == free \cup {v \in dels : pc = "wait" /\ v = victim}

Removing ==
    pc \in {"removing", "wait"} /\ failures = {} =>
        /\ state = graph \cup start /\ senders = (graph \ Gone) \cup start
        /\ metas = Names(graph)
        /\ removed \cap graph \subseteq Gone /\ dels \cap free = {}
        /\ \A v \in graph : worker[v] # "none"
        /\ On = Kinds(graph) /\ oldKinds = On
        /\ leaving => graph \subseteq dels \cup free
        /\ dels # {} => start = {}

Starting ==
    pc \in {"background", "starting"} /\ failures = {} =>
        /\ state = graph \cup free /\ senders = graph
        /\ metas \cup Names(start) = Names(graph)
        /\ removed \cap graph = {}
        /\ \A v \in graph : worker[v] = "none" => v \in start
        /\ oldKinds \subseteq On /\ On \subseteq oldKinds \cup Kinds(graph)
        /\ leaving => graph = {}

Stopping ==
    pc = "stopping" /\ failures = {} =>
        /\ state = graph /\ senders = graph /\ metas = Names(graph)
        /\ removed \cap graph = {}
        /\ \A v \in graph : worker[v] # "none"
        /\ Kinds(graph) \subseteq On /\ On \subseteq oldKinds \cup Kinds(graph)
        /\ leaving => graph = {}

IInv ==
    /\ TypeOK /\ NoPanicUnlessFailed /\ BackgroundCoversWatch
    /\ Control /\ Fresh /\ Owned /\ Pending /\ Syncing /\ Swapped /\ Quiet /\ Booted
    /\ Installed /\ Removing /\ Starting /\ Stopping

USE KindAssumption, RewatchAssumption, LoadsAssumption, NoKindAssumption
    DEF graphVars, vertexVars, indexVars, bgVars, commitVars, driverVars, loopVars, mainVars,
        Goto, Alive, Panic

LEMMA DeployKeeps == ASSUME IInv, Deploy PROVE IInv'
<1> USE DEF IInv, Deploy
<1>1. TypeOK'
  BY DEF TypeOK, VertexTypeOK, CommitTypeOK, MainTypeOK
<1>2. NoPanicUnlessFailed' /\ BackgroundCoversWatch' /\ Control' /\ Fresh' /\ Owned'
      /\ Pending' /\ Syncing' /\ Swapped' /\ Quiet' /\ Booted' /\ Installed'
      /\ Removing' /\ Starting' /\ Stopping'
  BY DEF NoPanicUnlessFailed, BackgroundCoversWatch, Running, Control, CommitPlaces,
         Fresh, Owned, UniqueNames, Pending, Syncing, Swapped, Quiet, Booted, On,
         Installed, IdlePlaces, Places, Removing, Gone, Starting, Stopping
<1> QED
  BY <1>1, <1>2

\* the vertices that a graph brings
LEMMA Loaded ==
    ASSUME NEW N \in SUBSET Name, NEW i \in 1..MaxLoads
    PROVE  /\ N \X {i} \subseteq Vertex /\ UniqueNames(N \X {i})
           /\ \A w \in N \X {i} : w[2] = i
  BY DEF Vertex, UniqueNames, NameOf

LEMMA NewGraphKeeps == ASSUME IInv, NewGraph PROVE IInv'
<1>1. loads < MaxLoads /\ loads' = loads + 1
  BY DEF NewGraph
<1>2. loads \in 0..MaxLoads
  BY DEF IInv, TypeOK, MainTypeOK
<1>3. loads + 1 \in 1..MaxLoads /\ loads' \in 0..MaxLoads
  BY <1>1, <1>2
<1>4. PICK N \in SUBSET Name : nextGraph' = N \X {loads + 1} /\ same' \subseteq N
  BY DEF NewGraph
<1>5. /\ nextGraph' \subseteq Vertex /\ UniqueNames(nextGraph') /\ same' \subseteq Name
      /\ \A w \in nextGraph' : w[2] = loads + 1
  BY <1>3, <1>4, Loaded
<1> USE DEF IInv, NewGraph, PauseConverger
<1>6. TypeOK'
  BY <1>3, <1>5 DEF TypeOK, VertexTypeOK, CommitTypeOK, MainTypeOK, Places, Panics
<1>7. NoPanicUnlessFailed'
  BY DEF NoPanicUnlessFailed, Control
<1>8. Control'
  BY DEF Control, CommitPlaces
<1>9. Fresh'
  <2> HIDE DEF NewGraph
  <2>1. ASSUME NEW v \in Vertex, v[2] > loads' PROVE v[2] > loads
    BY <1>1, <1>2, <2>1 DEF Vertex
  <2>2. graph' = graph /\ removed' = removed /\ worker' = worker
    BY DEF NewGraph
  <2> QED
    BY <2>1, <2>2 DEF Fresh
<1>10. Pending'
  <2> HIDE DEF NewGraph
  <2>1. \A w \in nextGraph' : w[2] > loads /\ w[2] \leq loads'
    BY <1>1, <1>2, <1>5
  <2>2. \A w \in nextGraph' : w \notin graph /\ w \notin removed /\ worker[w] = "none"
    BY <1>5, <2>1 DEF Fresh
  <2>3. graph' = graph /\ removed' = removed /\ worker' = worker
    BY DEF NewGraph
  <2> QED
    BY <1>5, <2>1, <2>2, <2>3 DEF Pending
<1>11. Syncing'
  BY DEF Syncing, Running
<1>12. Swapped'
  BY DEF Swapped
<1>13. Quiet'
  BY DEF Quiet, Control, Owned, Running, TypeOK, MainTypeOK, CommitPlaces
<1>14. Booted'
  BY DEF Booted, On
<1>15. Installed'
  BY DEF Installed, On, IdlePlaces, Places
<1>16. Removing'
  BY DEF Removing, On, Gone
<1>17. Starting'
  BY DEF Starting, On
<1>18. Stopping'
  BY DEF Stopping, On
<1>19. BackgroundCoversWatch' /\ Owned'
  BY DEF BackgroundCoversWatch, Running, Owned, UniqueNames
<1> QED
  BY <1>6, <1>7, <1>8, <1>9, <1>10, <1>11, <1>12, <1>13, <1>14, <1>15, <1>16, <1>17,
     <1>18, <1>19

LEMMA DeployExitedKeeps == ASSUME IInv, DeployExited PROVE IInv'
<1> USE DEF IInv, DeployExited, PauseConverger
<1>1. TypeOK'
  BY DEF TypeOK, VertexTypeOK, CommitTypeOK, MainTypeOK, Places, Panics
<1>2. NoPanicUnlessFailed'
  BY DEF NoPanicUnlessFailed, Control
<1>3. Control'
  BY DEF Control, CommitPlaces
<1>4. Pending'
  BY DEF Pending, UniqueNames
<1>5. Syncing'
  BY DEF Syncing, Running
<1>6. Swapped'
  BY DEF Swapped
<1>7. Quiet'
  BY DEF Quiet, Control, Owned, Running, TypeOK, MainTypeOK, CommitPlaces
<1>8. Booted'
  BY DEF Booted, On
<1>9. Installed'
  BY DEF Installed, On, IdlePlaces, Places
<1>10. Removing'
  BY DEF Removing, On, Gone
<1>11. Starting'
  BY DEF Starting, On
<1>12. Stopping'
  BY DEF Stopping, On
<1>13. BackgroundCoversWatch' /\ Fresh' /\ Owned'
  BY DEF BackgroundCoversWatch, Running, Fresh, Owned, UniqueNames
<1> QED
  BY <1>1, <1>2, <1>3, <1>4, <1>5, <1>6, <1>7, <1>8, <1>9, <1>10, <1>11, <1>12, <1>13

LEMMA PauseVertexKeeps == ASSUME NEW v \in Vertex, IInv, PauseVertex(v) PROVE IInv'
<1> USE DEF IInv, PauseVertex
<1>1. TypeOK'
  BY DEF TypeOK, VertexTypeOK, CommitTypeOK, MainTypeOK, Panics
<1>2. NoPanicUnlessFailed'
  <2> SUFFICES ASSUME failures = {} PROVE panicked' = panicked
    BY DEF NoPanicUnlessFailed
  <2>1. v \in graph
    BY DEF Quiet
  <2>2. worker[v] # "none" /\ (worker[v] = "live" => ~isPaused[v])
    BY <2>1 DEF Installed, IdlePlaces, Places
  <2>3. worker[v] \in Done \cup {"live"}
    BY <2>2 DEF TypeOK, VertexTypeOK, Running, Done
  <2> QED
    BY <2>2, <2>3
<1>3. Syncing'
  BY DEF Syncing, Running
<1>4. Swapped'
  BY DEF Swapped
<1>5. Quiet'
  <2>1. ASSUME NEW w \in Vertex, worker[w] = "live"
        PROVE  isPaused'[w] \/ w \in left'
    BY <2>1 DEF Quiet, TypeOK, VertexTypeOK, Done
  <2> QED
    BY <2>1 DEF Quiet, CommitPlaces
<1>6. Installed'
  BY DEF Installed, On, IdlePlaces, Places, TypeOK, VertexTypeOK, CommitTypeOK,
         MainTypeOK
<1>7. BackgroundCoversWatch' /\ Control' /\ Fresh' /\ Owned' /\ Pending' /\ Booted'
      /\ Removing' /\ Starting' /\ Stopping'
  BY DEF BackgroundCoversWatch, Running, Control, CommitPlaces, Fresh, Owned,
         UniqueNames, Pending, Booted, On, Removing, Gone, Starting, Stopping
<1> QED
  BY <1>1, <1>2, <1>3, <1>4, <1>5, <1>6, <1>7

LEMMA PausedKeeps == ASSUME IInv, Paused PROVE IInv'
<1> USE DEF IInv, Paused, AllPaused
<1>1. TypeOK'
  BY DEF TypeOK, VertexTypeOK, CommitTypeOK, MainTypeOK, Places
<1>2. Control'
  BY DEF Control, CommitPlaces
<1>3. Pending'
  BY DEF Pending, UniqueNames
<1>4. Syncing'
  BY DEF Syncing, Running
<1>5. Swapped'
  BY DEF Swapped
<1>6. Quiet'
  BY DEF Quiet, CommitPlaces
<1>7. Booted'
  BY DEF Booted, On
<1>8. Installed'
  BY DEF Installed, On, IdlePlaces, Places
<1>9. Removing'
  BY DEF Removing, On, Gone
<1>10. Starting'
  BY DEF Starting, On
<1>11. Stopping'
  BY DEF Stopping, On
<1>12. NoPanicUnlessFailed' /\ BackgroundCoversWatch' /\ Fresh' /\ Owned'
  BY DEF NoPanicUnlessFailed, BackgroundCoversWatch, Running, Fresh, Owned, UniqueNames
<1> QED
  BY <1>1, <1>2, <1>3, <1>4, <1>5, <1>6, <1>7, <1>8, <1>9, <1>10, <1>11, <1>12

LEMMA ResumeVertexKeeps == ASSUME NEW v \in Vertex, IInv, ResumeVertex(v) PROVE IInv'
<1> USE DEF IInv, ResumeVertex
<1>1. TypeOK'
  BY DEF TypeOK, VertexTypeOK, CommitTypeOK, MainTypeOK, Panics
<1>2. NoPanicUnlessFailed'
  <2> SUFFICES ASSUME failures = {} PROVE panicked' = panicked
    BY DEF NoPanicUnlessFailed
  <2>1. v \in graph
    BY DEF Quiet
  <2>2. worker[v] # "none" /\ (worker[v] = "live" => isPaused[v])
    BY <2>1 DEF Installed, IdlePlaces, Places
  <2>3. worker[v] \in Done \cup {"live"}
    BY <2>2 DEF TypeOK, VertexTypeOK, Running, Done
  <2> QED
    BY <2>2, <2>3
<1>3. Syncing'
  BY DEF Syncing, Running
<1>4. Swapped'
  BY DEF Swapped
<1>5. Quiet'
  BY DEF Quiet, CommitPlaces
<1>6. Installed'
  <2> SUFFICES ASSUME failures = {}
               PROVE  /\ \A w \in left' : worker[w] = "live" => isPaused'[w]
                      /\ \A w \in graph \ left' : worker[w] = "live" => ~isPaused'[w]
    BY DEF Installed, IdlePlaces, Places, On
  <2>1. /\ \A w \in left : worker[w] = "live" => isPaused[w]
        /\ \A w \in graph \ left : worker[w] = "live" => ~isPaused[w]
    BY DEF Installed, IdlePlaces, Places
  <2>2. ASSUME NEW w \in left', worker[w] = "live" PROVE isPaused'[w]
    BY <2>1, <2>2 DEF TypeOK, VertexTypeOK, MainTypeOK
  <2>3. ASSUME NEW w \in graph \ left', worker[w] = "live" PROVE ~isPaused'[w]
    BY <2>1, <2>3 DEF TypeOK, VertexTypeOK, Done
  <2> QED
    BY <2>2, <2>3
<1>7. BackgroundCoversWatch' /\ Control' /\ Fresh' /\ Owned' /\ Pending' /\ Booted'
      /\ Removing' /\ Starting' /\ Stopping'
  BY DEF BackgroundCoversWatch, Running, Control, CommitPlaces, Fresh, Owned,
         UniqueNames, Pending, Booted, On, Removing, Gone, Starting, Stopping
<1> QED
  BY <1>1, <1>2, <1>3, <1>4, <1>5, <1>6, <1>7

LEMMA ResumedKeeps == ASSUME IInv, Resumed PROVE IInv'
<1> USE DEF IInv, Resumed
<1>1. TypeOK'
  BY DEF TypeOK, VertexTypeOK, CommitTypeOK, MainTypeOK, Places
<1>2. Control'
  BY DEF Control, CommitPlaces
<1>3. Pending'
  BY DEF Pending, UniqueNames
<1>4. Syncing'
  BY DEF Syncing, Running
<1>5. Swapped'
  BY DEF Swapped
<1>6. Quiet'
  BY DEF Quiet, CommitPlaces
<1>7. Booted'
  BY DEF Booted, On
<1>8. Installed'
  BY DEF Installed, On, IdlePlaces, Places
<1>9. Removing'
  BY DEF Removing, On, Gone
<1>10. Starting'
  BY DEF Starting, On
<1>11. Stopping'
  BY DEF Stopping, On
<1>12. NoPanicUnlessFailed' /\ BackgroundCoversWatch' /\ Fresh' /\ Owned'
  BY DEF NoPanicUnlessFailed, BackgroundCoversWatch, Running, Fresh, Owned, UniqueNames
<1> QED
  BY <1>1, <1>2, <1>3, <1>4, <1>5, <1>6, <1>7, <1>8, <1>9, <1>10, <1>11, <1>12

LEMMA SendRecvKeeps == ASSUME IInv, SendRecv PROVE IInv'
<1> USE DEF IInv, SendRecv
<1>1. TypeOK'
  BY DEF TypeOK, VertexTypeOK, CommitTypeOK, MainTypeOK, Places
<1>2. Control'
  BY DEF Control, CommitPlaces
<1>3. Pending'
  BY DEF Pending, UniqueNames
<1>4. Syncing'
  BY DEF Syncing, Running
<1>5. Swapped'
  BY DEF Swapped
<1>6. Quiet'
  BY DEF Quiet, CommitPlaces
<1>7. Booted'
  BY DEF Booted, On
<1>8. Installed'
  BY DEF Installed, On, IdlePlaces, Places
<1>9. Removing'
  BY DEF Removing, On, Gone
<1>10. Starting'
  BY DEF Starting, On
<1>11. Stopping'
  BY DEF Stopping, On
<1>12. NoPanicUnlessFailed' /\ BackgroundCoversWatch' /\ Fresh' /\ Owned'
  BY DEF NoPanicUnlessFailed, BackgroundCoversWatch, Running, Fresh, Owned, UniqueNames
<1> QED
  BY <1>1, <1>2, <1>3, <1>4, <1>5, <1>6, <1>7, <1>8, <1>9, <1>10, <1>11, <1>12

LEMMA SendRecvFailsKeeps == ASSUME IInv, SendRecvFails PROVE IInv'
<1> USE DEF IInv, SendRecvFails, Fail
<1>1. TypeOK'
  BY DEF TypeOK, VertexTypeOK, CommitTypeOK, MainTypeOK, Places, Failures
<1>2. NoPanicUnlessFailed'
  BY DEF NoPanicUnlessFailed
<1>3. Control'
  BY DEF Control, CommitPlaces
<1>4. Pending'
  BY DEF Pending, UniqueNames
<1>5. Syncing'
  BY DEF Syncing, Running
<1>6. Swapped'
  BY DEF Swapped
<1>7. Quiet'
  BY DEF Quiet, CommitPlaces
<1>8. Booted'
  BY DEF Booted, On
<1>9. Installed'
  BY DEF Installed, On, IdlePlaces, Places
<1>10. Removing'
  BY DEF Removing, On, Gone
<1>11. Starting'
  BY DEF Starting, On
<1>12. Stopping'
  BY DEF Stopping, On
<1>13. BackgroundCoversWatch' /\ Fresh' /\ Owned'
  BY DEF BackgroundCoversWatch, Running, Fresh, Owned, UniqueNames
<1> QED
  BY <1>1, <1>2, <1>3, <1>4, <1>5, <1>6, <1>7, <1>8, <1>9, <1>10, <1>11, <1>12, <1>13

LEMMA GraphSyncKeeps == ASSUME IInv, GraphSync PROVE IInv'
<1> USE DEF IInv, GraphSync
<1>1. TypeOK'
  <2>1. oldKinds' \subseteq Background
    BY DEF Kinds
  <2> QED
    BY <2>1 DEF TypeOK, VertexTypeOK, CommitTypeOK, MainTypeOK, Places
<1>2. Control'
  BY DEF Control, CommitPlaces
<1>3. Pending'
  BY DEF Pending, UniqueNames
<1>4. Syncing'
  BY DEF Syncing, Running
<1>5. Swapped'
  BY DEF Swapped
<1>6. Quiet'
  BY DEF Quiet, CommitPlaces
<1>7. Booted'
  BY DEF Booted, On
<1>8. Installed'
  BY DEF Installed, On, IdlePlaces, Places
<1>9. Removing'
  <2> SUFFICES ASSUME failures = {} PROVE Removing'
    BY DEF Removing
  <2>1. /\ state = graph /\ senders = graph /\ metas = Names(graph)
        /\ removed \cap graph = {} /\ On = Kinds(graph)
        /\ \A v \in graph : worker[v] # "none"
    BY DEF Installed, IdlePlaces, Places
  <2>2. Gone' = {} /\ On' = On
    BY DEF Gone, On
  <2>3. leaving => graph \subseteq dels'
    BY DEF Control, CommitPlaces, Keeps, Names
  <2> QED
    BY <2>1, <2>2, <2>3 DEF Removing
<1>10. Starting'
  BY DEF Starting, On
<1>11. Stopping'
  BY DEF Stopping, On
<1>12. NoPanicUnlessFailed' /\ BackgroundCoversWatch' /\ Fresh' /\ Owned'
  BY DEF NoPanicUnlessFailed, BackgroundCoversWatch, Running, Fresh, Owned, UniqueNames
<1> QED
  BY <1>1, <1>2, <1>3, <1>4, <1>5, <1>6, <1>7, <1>8, <1>9, <1>10, <1>11, <1>12

LEMMA vertexRemoveFnKeeps == ASSUME NEW v \in Vertex, IInv, vertexRemoveFn(v) PROVE IInv'
<1> USE DEF IInv, vertexRemoveFn, deleteSenders
<1>1. TypeOK'
  BY DEF TypeOK, VertexTypeOK, CommitTypeOK, MainTypeOK, Places, Panics
<1>2. NoPanicUnlessFailed'
  <2> SUFFICES ASSUME failures = {} PROVE v \notin removed
    BY DEF NoPanicUnlessFailed
  <2>1. Gone = free /\ v \in graph
    BY DEF Gone, Syncing
  <2> QED
    BY <2>1 DEF Removing
<1>3. Control'
  BY DEF Control, CommitPlaces
<1>4. Fresh'
  <2>1. v \in graph /\ removed' \subseteq removed \cup {v}
    BY DEF Syncing
  <2> QED
    BY <2>1 DEF Fresh
<1>5. Pending'
  <2>1. v \in graph
    BY DEF Syncing
  <2> QED
    BY <2>1 DEF Pending
<1>6. Syncing'
  BY DEF Syncing, Running
<1>7. Swapped'
  BY DEF Swapped
<1>8. Quiet'
  BY DEF Quiet, CommitPlaces
<1>9. Booted'
  BY DEF Booted, On
<1>10. Installed'
  BY DEF Installed, On, IdlePlaces, Places
<1>11. Removing'
  <2> SUFFICES ASSUME failures = {} PROVE Removing'
    BY DEF Removing
  <2>1. v \in graph /\ v \notin free /\ v \notin removed /\ start = {} /\ Gone = free
    BY DEF Syncing, Removing, Gone
  <2>2. Gone' = free \cup {v} /\ On' = On
    BY <2>1 DEF Gone, On
  <2>3. senders' = graph \ Gone'
    BY <2>1, <2>2 DEF Removing, Owned, UniqueNames
  <2> QED
    BY <2>1, <2>2, <2>3 DEF Removing
<1>12. Starting'
  BY DEF Starting, On
<1>13. Stopping'
  BY DEF Stopping, On
<1>14. BackgroundCoversWatch' /\ Owned'
  BY DEF BackgroundCoversWatch, Running, Owned, UniqueNames
<1> QED
  BY <1>1, <1>2, <1>3, <1>4, <1>5, <1>6, <1>7, <1>8, <1>9, <1>10, <1>11, <1>12, <1>13,
     <1>14

LEMMA CleanupKeeps == ASSUME IInv, Cleanup PROVE IInv'
<1> USE DEF IInv, Cleanup, WorkerReturned
<1>1. TypeOK'
  BY DEF TypeOK, VertexTypeOK, CommitTypeOK, MainTypeOK, Places, Syncing
<1>2. Control'
  BY DEF Control, CommitPlaces
<1>3. Pending'
  BY DEF Pending, UniqueNames
<1>4. Syncing'
  BY DEF Syncing, Running
<1>5. Swapped'
  BY DEF Swapped
<1>6. Quiet'
  BY DEF Quiet, CommitPlaces
<1>7. Booted'
  BY DEF Booted, On
<1>8. Installed'
  BY DEF Installed, On, IdlePlaces, Places
<1>9. Removing'
  <2> SUFFICES ASSUME failures = {} PROVE Removing'
    BY DEF Removing
  <2>1. Gone' = Gone /\ On' = On
    BY DEF Gone, On, Syncing
  <2>2. dels' \cap free' = {} /\ dels' \cup free' = dels \cup free
    BY DEF Removing, Syncing
  <2> QED
    BY <2>1, <2>2 DEF Removing
<1>10. Starting'
  BY DEF Starting, On
<1>11. Stopping'
  BY DEF Stopping, On
<1>12. NoPanicUnlessFailed' /\ BackgroundCoversWatch' /\ Fresh' /\ Owned'
  BY DEF NoPanicUnlessFailed, BackgroundCoversWatch, Running, Fresh, Owned, UniqueNames
<1> QED
  BY <1>1, <1>2, <1>3, <1>4, <1>5, <1>6, <1>7, <1>8, <1>9, <1>10, <1>11, <1>12

LEMMA CleanupFailsKeeps == ASSUME IInv, CleanupFails PROVE IInv'
<1> USE DEF IInv, CleanupFails, Fail, WorkerReturned
<1>1. TypeOK'
  BY DEF TypeOK, VertexTypeOK, CommitTypeOK, MainTypeOK, Places, Failures
<1>2. NoPanicUnlessFailed'
  BY DEF NoPanicUnlessFailed
<1>3. Control'
  BY DEF Control, CommitPlaces
<1>4. Pending'
  BY DEF Pending, UniqueNames
<1>5. Syncing'
  BY DEF Syncing, Running
<1>6. Swapped'
  BY DEF Swapped
<1>7. Quiet'
  BY DEF Quiet, CommitPlaces
<1>8. Booted'
  BY DEF Booted, On
<1>9. Installed'
  BY DEF Installed, On, IdlePlaces, Places
<1>10. Removing'
  BY DEF Removing, On, Gone
<1>11. Starting'
  BY DEF Starting, On
<1>12. Stopping'
  BY DEF Stopping, On
<1>13. BackgroundCoversWatch' /\ Fresh' /\ Owned'
  BY DEF BackgroundCoversWatch, Running, Fresh, Owned, UniqueNames
<1> QED
  BY <1>1, <1>2, <1>3, <1>4, <1>5, <1>6, <1>7, <1>8, <1>9, <1>10, <1>11, <1>12, <1>13

LEMMA vertexAddFnKeeps == ASSUME NEW v \in Vertex, IInv, vertexAddFn(v) PROVE IInv'
<1> USE DEF IInv, vertexAddFn, addSenders, InitPaused
<1>1. TypeOK'
  BY DEF TypeOK, VertexTypeOK, CommitTypeOK, MainTypeOK
<1>2. Syncing'
  BY DEF Syncing, Running, TypeOK, VertexTypeOK, CommitTypeOK, MainTypeOK
<1>3. Swapped'
  BY DEF Swapped
<1>4. Quiet'
  BY DEF Quiet, CommitPlaces
<1>5. Installed'
  BY DEF Installed, On, IdlePlaces, Places
<1>6. Removing'
  <2> SUFFICES ASSUME failures = {} PROVE Removing'
    BY DEF Removing
  <2>1. Gone' = free /\ Gone = free /\ On' = On
    BY DEF Gone, On
  <2>2. v \in nextGraph
  /\ \A s \in (graph \ free) \cup start : NameOf(s) = NameOf(v) => s = v
    BY DEF Syncing, Pending, UniqueNames
  <2>3. senders' = (graph \ free) \cup start'
    BY <2>1, <2>2 DEF Removing
  <2> QED
    BY <2>1, <2>3 DEF Removing
<1>7. Starting'
  BY DEF Starting, On
<1>8. Stopping'
  BY DEF Stopping, On
<1>9. NoPanicUnlessFailed' /\ BackgroundCoversWatch' /\ Control' /\ Fresh' /\ Owned'
      /\ Pending' /\ Booted'
  BY DEF NoPanicUnlessFailed, BackgroundCoversWatch, Running, Control, CommitPlaces,
         Fresh, Owned, UniqueNames, Pending, Booted, On
<1> QED
  BY <1>1, <1>2, <1>3, <1>4, <1>5, <1>6, <1>7, <1>8, <1>9

LEMMA vertexAddFnFailsKeeps == ASSUME NEW v \in Vertex, IInv, vertexAddFnFails(v) PROVE IInv'
<1> USE DEF IInv, vertexAddFnFails, Fail, addSenders
<1>1. TypeOK'
  BY DEF TypeOK, VertexTypeOK, CommitTypeOK, MainTypeOK, Places, Failures
<1>2. NoPanicUnlessFailed'
  BY DEF NoPanicUnlessFailed
<1>3. Control'
  BY DEF Control, CommitPlaces
<1>4. Pending'
  BY DEF Pending, UniqueNames
<1>5. Syncing'
  BY DEF Syncing, Running
<1>6. Swapped'
  BY DEF Swapped
<1>7. Quiet'
  BY DEF Quiet, CommitPlaces
<1>8. Booted'
  BY DEF Booted, On
<1>9. Installed'
  BY DEF Installed, On, IdlePlaces, Places
<1>10. Removing'
  BY DEF Removing, On, Gone
<1>11. Starting'
  BY DEF Starting, On
<1>12. Stopping'
  BY DEF Stopping, On
<1>13. BackgroundCoversWatch' /\ Fresh' /\ Owned'
  BY DEF BackgroundCoversWatch, Running, Fresh, Owned, UniqueNames
<1> QED
  BY <1>1, <1>2, <1>3, <1>4, <1>5, <1>6, <1>7, <1>8, <1>9, <1>10, <1>11, <1>12, <1>13

\* the metas that Swap keeps, with those that StartWorker makes, are those of the graph
LEMMA SwapNames ==
    ASSUME IInv, pc = "removing", state = graph \cup start, metas = Names(graph)
    PROVE  CollectMetas \cup Names(start) = Names((graph \ free) \cup start)
<1>1. free \subseteq graph /\ \A v, w \in graph : NameOf(v) = NameOf(w) => v = w
  BY DEF IInv, Syncing, Owned, UniqueNames
<1>2. Names(graph \ free) = Names(graph) \ Names(free)
  BY <1>1 DEF Names
<1>3. Names((graph \ free) \cup start) = Names(graph \ free) \cup Names(start)
  BY DEF Names
<1>4. Names(state) = Names(graph) \cup Names(start)
  BY DEF Names
<1> QED
  BY <1>2, <1>3, <1>4 DEF CollectMetas

LEMMA SwapKeeps == ASSUME IInv, Swap PROVE IInv'
<1> USE DEF IInv, Swap, CollectMetas
<1>1. TypeOK'
  <2>1. graph' \subseteq state /\ graph' \subseteq Vertex
    BY DEF TypeOK, VertexTypeOK, CommitTypeOK, Syncing
  <2> QED
    BY <2>1 DEF TypeOK, VertexTypeOK, CommitTypeOK, MainTypeOK, Places
<1>2. Control'
  BY DEF Control, CommitPlaces
<1>3. Fresh'
  <2>1. \A w \in start : w[2] \leq loads
    BY DEF Syncing, Pending
  <2> QED
    BY <2>1 DEF Fresh, Vertex, TypeOK, MainTypeOK
<1>4. Owned'
  <2>1. UniqueNames(graph')
    BY DEF UniqueNames, Owned, Syncing, Pending
  <2>2. \A v \in Vertex : worker[v] \in Running => v \in graph'
    BY DEF Owned, Syncing
  <2> QED
    BY <2>1, <2>2 DEF Owned
<1>5. Pending'
  BY DEF Pending, UniqueNames
<1>6. Syncing'
  BY DEF Syncing, Running
<1>7. Swapped'
  BY DEF Swapped, Syncing, Pending
<1>8. Quiet'
  BY DEF Quiet, CommitPlaces
<1>9. Booted'
  BY DEF Booted, On
<1>10. Installed'
  BY DEF Installed, On, IdlePlaces, Places
<1>11. Removing'
  BY DEF Removing, On, Gone
<1>12. Starting'
  <2> SUFFICES ASSUME failures = {} PROVE Starting'
    BY DEF Starting
  <2>1. /\ state = graph \cup start /\ senders = (graph \ free) \cup start
        /\ metas = Names(graph) /\ removed \cap graph \subseteq free
        /\ oldKinds = On /\ On' = On /\ On = Kinds(graph)
        /\ \A v \in graph : worker[v] # "none"
        /\ leaving => graph \subseteq free
    BY DEF Removing, Gone, On
  <2>2. /\ start \cap removed = {} /\ start \subseteq nextGraph /\ free \subseteq graph
        /\ \A w \in start : worker[w] = "none"
    BY DEF Syncing, Pending
  <2>3. state = graph' \cup free /\ senders = graph' /\ removed \cap graph' = {}
    BY <2>1, <2>2
  <2>4. metas' \cup Names(start) = Names(graph')
    BY <2>1, <2>2, SwapNames
  <2>5. leaving => graph' = {}
    BY <2>1, <2>2 DEF Control, CommitPlaces
  <2> QED
    BY <2>1, <2>2, <2>3, <2>4, <2>5 DEF Starting
<1>13. Stopping'
  BY DEF Stopping, On
<1>14. NoPanicUnlessFailed' /\ BackgroundCoversWatch'
  BY DEF NoPanicUnlessFailed, BackgroundCoversWatch, Running
<1> QED
  BY <1>1, <1>2, <1>3, <1>4, <1>5, <1>6, <1>7, <1>8, <1>9, <1>10, <1>11, <1>12, <1>13,
     <1>14

LEMMA StartBackgroundKeeps == ASSUME NEW k \in Kind, IInv, StartBackground(k) PROVE IInv'
<1> USE DEF IInv, StartBackground
<1>1. TypeOK'
  BY DEF TypeOK, VertexTypeOK, CommitTypeOK, MainTypeOK
<1>2. BackgroundCoversWatch'
  BY DEF BackgroundCoversWatch, Running
<1>3. Booted'
  BY DEF Booted, On
<1>4. Installed'
  BY DEF Installed, On, IdlePlaces, Places
<1>5. Removing'
  BY DEF Removing, On, Gone
<1>6. Starting'
  BY DEF Starting, On
<1>7. Stopping'
  BY DEF Stopping, On
<1>8. NoPanicUnlessFailed' /\ Control' /\ Fresh' /\ Owned' /\ Pending' /\ Syncing'
      /\ Swapped' /\ Quiet'
  BY DEF NoPanicUnlessFailed, Control, CommitPlaces, Fresh, Owned, Running,
         UniqueNames, Pending, Syncing, Swapped, Quiet
<1> QED
  BY <1>1, <1>2, <1>3, <1>4, <1>5, <1>6, <1>7, <1>8

LEMMA BackgroundReadyKeeps == ASSUME IInv, BackgroundReady PROVE IInv'
<1> USE DEF IInv, BackgroundReady
<1>1. TypeOK'
  BY DEF TypeOK, VertexTypeOK, CommitTypeOK, MainTypeOK
<1>2. BackgroundCoversWatch'
  BY DEF BackgroundCoversWatch, Running
<1>3. Booted'
  BY DEF Booted, On
<1>4. NoPanicUnlessFailed' /\ Control' /\ Fresh' /\ Owned' /\ Pending' /\ Syncing'
      /\ Swapped' /\ Quiet' /\ Installed' /\ Removing' /\ Starting' /\ Stopping'
  BY DEF NoPanicUnlessFailed, Control, CommitPlaces, Fresh, Owned, Running,
         UniqueNames, Pending, Syncing, Swapped, Quiet, Installed, On, IdlePlaces,
         Places, Removing, Gone, Starting, Stopping
<1> QED
  BY <1>1, <1>2, <1>3, <1>4

LEMMA BackgroundExitsKeeps == ASSUME NEW k \in Kind, IInv, BackgroundExits(k) PROVE IInv'
<1> USE DEF IInv, BackgroundExits
<1>1. TypeOK'
  BY DEF TypeOK, VertexTypeOK, CommitTypeOK, MainTypeOK
<1>2. BackgroundCoversWatch'
  BY DEF BackgroundCoversWatch, Running
<1>3. Booted'
  BY DEF Booted, On
<1>4. Installed'
  BY DEF Installed, On, IdlePlaces, Places
<1>5. Removing'
  BY DEF Removing, On, Gone
<1>6. Starting'
  BY DEF Starting, On
<1>7. Stopping'
  BY DEF Stopping, On
<1>8. NoPanicUnlessFailed' /\ Control' /\ Fresh' /\ Owned' /\ Pending' /\ Syncing'
      /\ Swapped' /\ Quiet'
  BY DEF NoPanicUnlessFailed, Control, CommitPlaces, Fresh, Owned, Running,
         UniqueNames, Pending, Syncing, Swapped, Quiet
<1> QED
  BY <1>1, <1>2, <1>3, <1>4, <1>5, <1>6, <1>7, <1>8

LEMMA StartBackgroundFailsKeeps == ASSUME IInv, StartBackgroundFails PROVE IInv'
<1> USE DEF IInv, StartBackgroundFails, Fail
<1>1. TypeOK'
  BY DEF TypeOK, VertexTypeOK, CommitTypeOK, MainTypeOK, Places, Failures
<1>2. NoPanicUnlessFailed'
  BY DEF NoPanicUnlessFailed
<1>3. BackgroundCoversWatch'
  BY DEF BackgroundCoversWatch, Running
<1>4. Control'
  BY DEF Control, Booted, CommitPlaces, TypeOK, MainTypeOK
<1>5. Pending'
  BY DEF Pending, UniqueNames
<1>6. Syncing'
  BY DEF Syncing, Running
<1>7. Swapped'
  BY DEF Swapped
<1>8. Quiet'
  BY DEF Quiet, Control, Booted, CommitPlaces
<1>9. Booted'
  BY DEF Booted, On
<1>10. Installed'
  BY DEF Installed, On, IdlePlaces, Places
<1>11. Removing'
  BY DEF Removing, On, Gone
<1>12. Starting'
  BY DEF Starting, On
<1>13. Stopping'
  BY DEF Stopping, On
<1>14. Fresh' /\ Owned'
  BY DEF Fresh, Owned, Running, UniqueNames
<1> QED
  BY <1>1, <1>2, <1>3, <1>4, <1>5, <1>6, <1>7, <1>8, <1>9, <1>10, <1>11, <1>12, <1>13,
     <1>14

LEMMA BackgroundDoneKeeps == ASSUME IInv, BackgroundDone PROVE IInv'
<1> USE DEF IInv, BackgroundDone
<1>1. TypeOK'
  BY DEF TypeOK, VertexTypeOK, CommitTypeOK, MainTypeOK, Places
<1>2. Control'
  BY DEF Control, CommitPlaces
<1>3. Pending'
  BY DEF Pending, UniqueNames
<1>4. Syncing'
  BY DEF Syncing, Running
<1>5. Swapped'
  BY DEF Swapped
<1>6. Quiet'
  BY DEF Quiet, CommitPlaces
<1>7. Booted'
  BY DEF Booted, On, Kinds
<1>8. Installed'
  BY DEF Installed, On, IdlePlaces, Places
<1>9. Removing'
  BY DEF Removing, On, Gone
<1>10. Starting'
  BY DEF Starting, On
<1>11. Stopping'
  BY DEF Stopping, On
<1>12. NoPanicUnlessFailed' /\ BackgroundCoversWatch' /\ Fresh' /\ Owned'
  BY DEF NoPanicUnlessFailed, BackgroundCoversWatch, Running, Fresh, Owned, UniqueNames
<1> QED
  BY <1>1, <1>2, <1>3, <1>4, <1>5, <1>6, <1>7, <1>8, <1>9, <1>10, <1>11, <1>12

LEMMA StartWorkerKeeps == ASSUME NEW v \in Vertex, IInv, StartWorker(v) PROVE IInv'
<1> USE DEF IInv, StartWorker
<1>1. TypeOK'
  <2>1. NameOf(v) \in Name
    BY DEF NameOf, Vertex
  <2> QED
    BY <2>1 DEF TypeOK, VertexTypeOK, CommitTypeOK, MainTypeOK, Running
<1>2. BackgroundCoversWatch'
  <2> DEFINE k == KindOf[NameOf(v)]
  <2>1. k \in Kind
    BY DEF NameOf, Vertex
  <2>2. k \in Background => bg[k] # "off"
    BY DEF Booted, Swapped, Kinds, Names, On
  <2>3. booting # k
    BY <2>1 DEF Booted
  <2> HIDE DEF k
  <2>4. ASSUME NEW w \in Vertex, w # v PROVE worker'[w] = worker[w]
    BY <2>4 DEF TypeOK, VertexTypeOK
  <2> QED
    BY <2>2, <2>3, <2>4 DEF BackgroundCoversWatch, k
<1>3. Fresh'
  <2>1. v \in graph
    BY DEF Swapped
  <2> QED
    BY <2>1 DEF Fresh, TypeOK, VertexTypeOK
<1>4. Owned'
  <2>1. v \in graph
    BY DEF Swapped
  <2> QED
    BY <2>1 DEF Owned, TypeOK, VertexTypeOK
<1>5. Pending'
  BY DEF Pending, UniqueNames
<1>6. Syncing'
  BY DEF Syncing, Running
<1>7. Swapped'
  BY DEF Swapped
<1>8. Quiet'
  <2>1. isPaused[v]
    BY DEF Swapped
  <2> QED
    BY <2>1 DEF Quiet, CommitPlaces, TypeOK, VertexTypeOK
<1>9. Installed'
  BY DEF Installed, On, IdlePlaces, Places
<1>10. Removing'
  BY DEF Removing, On, Gone
<1>11. Starting'
  <2> SUFFICES ASSUME failures = {} PROVE Starting'
    BY DEF Starting
  <2>1. metas' \cup Names(start') = metas \cup Names(start)
    BY DEF Names
  <2>2. \A w \in graph : worker'[w] = "none" => w \in start'
    BY DEF Starting, TypeOK, VertexTypeOK
  <2> QED
    BY <2>1, <2>2 DEF Starting, On
<1>12. Stopping'
  BY DEF Stopping, On
<1>13. NoPanicUnlessFailed' /\ Control' /\ Booted'
  BY DEF NoPanicUnlessFailed, Control, CommitPlaces, Booted, On
<1> QED
  BY <1>1, <1>2, <1>3, <1>4, <1>5, <1>6, <1>7, <1>8, <1>9, <1>10, <1>11, <1>12, <1>13

LEMMA FreeKeeps == ASSUME NEW v \in Vertex, IInv, Free(v) PROVE IInv'
<1> USE DEF IInv, Free, Freed
<1>1. TypeOK'
  <2>1. v \notin graph
    BY DEF Swapped
  <2> QED
    BY <2>1 DEF TypeOK, VertexTypeOK, CommitTypeOK, MainTypeOK
<1>2. Syncing'
  BY DEF Syncing, Running
<1>3. Swapped'
  BY DEF Swapped
<1>4. Installed'
  BY DEF Installed, On, IdlePlaces, Places
<1>5. Removing'
  BY DEF Removing, On, Gone
<1>6. Starting'
  <2>1. v \notin graph
    BY DEF Swapped
  <2> QED
    BY <2>1 DEF Starting, On
<1>7. Stopping'
  BY DEF Stopping, On
<1>8. NoPanicUnlessFailed' /\ BackgroundCoversWatch' /\ Control' /\ Fresh' /\ Owned'
      /\ Pending' /\ Quiet' /\ Booted'
  BY DEF NoPanicUnlessFailed, BackgroundCoversWatch, Running, Control, CommitPlaces,
         Fresh, Owned, UniqueNames, Pending, Quiet, Booted, On
<1> QED
  BY <1>1, <1>2, <1>3, <1>4, <1>5, <1>6, <1>7, <1>8

LEMMA FreesDoneKeeps == ASSUME IInv, FreesDone PROVE IInv'
<1> USE DEF IInv, FreesDone
<1>1. TypeOK'
  BY DEF TypeOK, VertexTypeOK, CommitTypeOK, MainTypeOK, Places
<1>2. Control'
  BY DEF Control, CommitPlaces
<1>3. Pending'
  BY DEF Pending, UniqueNames
<1>4. Syncing'
  BY DEF Syncing, Running
<1>5. Swapped'
  BY DEF Swapped
<1>6. Quiet'
  BY DEF Quiet, CommitPlaces
<1>7. Booted'
  BY DEF Booted, On
<1>8. Installed'
  BY DEF Installed, On, IdlePlaces, Places
<1>9. Removing'
  BY DEF Removing, On, Gone
<1>10. Starting'
  BY DEF Starting, On
<1>11. Stopping'
  <2>1. Names(start) = {}
    BY DEF Names
  <2> QED
    BY <2>1 DEF Stopping, Starting, Booted, On
<1>12. NoPanicUnlessFailed' /\ BackgroundCoversWatch' /\ Fresh' /\ Owned'
  BY DEF NoPanicUnlessFailed, BackgroundCoversWatch, Running, Fresh, Owned, UniqueNames
<1> QED
  BY <1>1, <1>2, <1>3, <1>4, <1>5, <1>6, <1>7, <1>8, <1>9, <1>10, <1>11, <1>12

LEMMA StopBackgroundKeeps == ASSUME NEW k \in Kind, IInv, StopBackground(k) PROVE IInv'
<1> USE DEF IInv, StopBackground, Unused
<1>1. TypeOK'
  BY DEF TypeOK, VertexTypeOK, CommitTypeOK, MainTypeOK
<1>2. BackgroundCoversWatch'
  <2>1. ASSUME NEW v \in Vertex, worker[v] \in Running, KindOf[NameOf(v)] \in Background
        PROVE  KindOf[NameOf(v)] # k
    BY <2>1 DEF Owned, Kinds, Names
  <2> QED
    BY <2>1 DEF BackgroundCoversWatch, TypeOK, CommitTypeOK
<1>3. Booted'
  BY DEF Booted, On
<1>4. Installed'
  BY DEF Installed, On, IdlePlaces, Places
<1>5. Removing'
  BY DEF Removing, On, Gone
<1>6. Starting'
  BY DEF Starting, On
<1>7. Stopping'
  BY DEF Stopping, On
<1>8. NoPanicUnlessFailed' /\ Control' /\ Fresh' /\ Owned' /\ Pending' /\ Syncing'
      /\ Swapped' /\ Quiet'
  BY DEF NoPanicUnlessFailed, Control, CommitPlaces, Fresh, Owned, Running,
         UniqueNames, Pending, Syncing, Swapped, Quiet
<1> QED
  BY <1>1, <1>2, <1>3, <1>4, <1>5, <1>6, <1>7, <1>8

LEMMA CommittedKeeps == ASSUME IInv, Committed PROVE IInv'
<1> USE DEF IInv, Committed, Unused
<1>1. TypeOK'
  BY DEF TypeOK, VertexTypeOK, CommitTypeOK, MainTypeOK, Places
<1>2. Control'
  BY DEF Control, CommitPlaces
<1>3. Pending'
  BY DEF Pending, UniqueNames
<1>4. Syncing'
  BY DEF Syncing, Running
<1>5. Swapped'
  BY DEF Swapped
<1>6. Quiet'
  BY DEF Quiet, CommitPlaces
<1>7. Booted'
  BY DEF Booted, On
<1>8. Installed'
  <2> SUFFICES ASSUME failures = {} PROVE Installed'
    BY DEF Installed
  <2>1. On' = On /\ On = Kinds(graph)
    BY DEF On, Stopping
  <2> QED
    BY <2>1 DEF Installed, IdlePlaces, Places, Stopping, Quiet, CommitPlaces, TypeOK,
       VertexTypeOK
<1>9. Removing'
  BY DEF Removing, On, Gone
<1>10. Starting'
  BY DEF Starting, On
<1>11. Stopping'
  BY DEF Stopping, On
<1>12. NoPanicUnlessFailed' /\ BackgroundCoversWatch' /\ Fresh' /\ Owned'
  BY DEF NoPanicUnlessFailed, BackgroundCoversWatch, Running, Fresh, Owned, UniqueNames
<1> QED
  BY <1>1, <1>2, <1>3, <1>4, <1>5, <1>6, <1>7, <1>8, <1>9, <1>10, <1>11, <1>12

LEMMA PruneFailsKeeps == ASSUME IInv, PruneFails PROVE IInv'
<1> USE DEF IInv, PruneFails, Fail
<1>1. TypeOK'
  BY DEF TypeOK, VertexTypeOK, CommitTypeOK, MainTypeOK, Places, Failures
<1>2. NoPanicUnlessFailed'
  BY DEF NoPanicUnlessFailed
<1>3. Control'
  BY DEF Control, CommitPlaces
<1>4. Pending'
  BY DEF Pending, UniqueNames
<1>5. Syncing'
  BY DEF Syncing, Running
<1>6. Swapped'
  BY DEF Swapped
<1>7. Quiet'
  BY DEF Quiet, CommitPlaces
<1>8. Booted'
  BY DEF Booted, On
<1>9. Installed'
  BY DEF Installed, On, IdlePlaces, Places
<1>10. Removing'
  BY DEF Removing, On, Gone
<1>11. Starting'
  BY DEF Starting, On
<1>12. Stopping'
  BY DEF Stopping, On
<1>13. BackgroundCoversWatch' /\ Fresh' /\ Owned'
  BY DEF BackgroundCoversWatch, Running, Fresh, Owned, UniqueNames
<1> QED
  BY <1>1, <1>2, <1>3, <1>4, <1>5, <1>6, <1>7, <1>8, <1>9, <1>10, <1>11, <1>12, <1>13

LEMMA ShutdownKeeps == ASSUME IInv, Shutdown PROVE IInv'
<1> USE DEF IInv, Shutdown
<1>1. TypeOK'
  BY DEF TypeOK, VertexTypeOK, CommitTypeOK, MainTypeOK, Places
<1>2. Control'
  BY DEF Control, CommitPlaces
<1>3. Pending'
  BY DEF Pending, UniqueNames
<1>4. Syncing'
  BY DEF Syncing, Running
<1>5. Swapped'
  BY DEF Swapped
<1>6. Quiet'
  BY DEF Quiet, CommitPlaces
<1>7. Booted'
  BY DEF Booted, On
<1>8. Installed'
  BY DEF Installed, On, IdlePlaces, Places
<1>9. Removing'
  BY DEF Removing, On, Gone
<1>10. Starting'
  BY DEF Starting, On
<1>11. Stopping'
  BY DEF Stopping, On
<1>12. NoPanicUnlessFailed' /\ BackgroundCoversWatch' /\ Fresh' /\ Owned'
  BY DEF NoPanicUnlessFailed, BackgroundCoversWatch, Running, Fresh, Owned, UniqueNames
<1> QED
  BY <1>1, <1>2, <1>3, <1>4, <1>5, <1>6, <1>7, <1>8, <1>9, <1>10, <1>11, <1>12

LEMMA ShutdownReturnsKeeps == ASSUME IInv, ShutdownReturns PROVE IInv'
<1> USE DEF IInv, ShutdownReturns
<1>1. TypeOK'
  BY DEF TypeOK, VertexTypeOK, CommitTypeOK, MainTypeOK, Places
<1>2. Control'
  BY DEF Control, CommitPlaces
<1>3. Pending'
  BY DEF Pending, UniqueNames
<1>4. Syncing'
  BY DEF Syncing, Running
<1>5. Swapped'
  BY DEF Swapped
<1>6. Quiet'
  BY DEF Quiet, CommitPlaces
<1>7. Booted'
  BY DEF Booted, On
<1>8. Installed'
  BY DEF Installed, On, IdlePlaces, Places
<1>9. Removing'
  BY DEF Removing, On, Gone
<1>10. Starting'
  BY DEF Starting, On
<1>11. Stopping'
  BY DEF Stopping, On
<1>12. NoPanicUnlessFailed' /\ BackgroundCoversWatch' /\ Fresh' /\ Owned'
  BY DEF NoPanicUnlessFailed, BackgroundCoversWatch, Running, Fresh, Owned, UniqueNames
<1> QED
  BY <1>1, <1>2, <1>3, <1>4, <1>5, <1>6, <1>7, <1>8, <1>9, <1>10, <1>11, <1>12

LEMMA WorkerStopsKeeps == ASSUME NEW v \in Vertex, IInv, WorkerStops(v) PROVE IInv'
<1> USE DEF IInv, WorkerStops
<1>1. TypeOK'
  BY DEF TypeOK, VertexTypeOK, CommitTypeOK, MainTypeOK, Running
<1>2. BackgroundCoversWatch'
  BY DEF BackgroundCoversWatch, Running
<1>3. Fresh'
  BY DEF Fresh
<1>4. Owned'
  BY DEF Owned, Running, UniqueNames
<1>5. Pending'
  BY DEF Pending, UniqueNames
<1>6. Syncing'
  BY DEF Syncing, Running
<1>7. Quiet'
  BY DEF Quiet, CommitPlaces
<1>8. Installed'
  BY DEF Installed, On, IdlePlaces, Places
<1>9. Removing'
  BY DEF Removing, On, Gone
<1>10. Starting'
  BY DEF Starting, On
<1>11. Stopping'
  BY DEF Stopping, On
<1>12. NoPanicUnlessFailed' /\ Control' /\ Swapped' /\ Booted'
  BY DEF NoPanicUnlessFailed, Control, CommitPlaces, Swapped, Booted, On
<1> QED
  BY <1>1, <1>2, <1>3, <1>4, <1>5, <1>6, <1>7, <1>8, <1>9, <1>10, <1>11, <1>12

LEMMA WorkerRemovedKeeps == ASSUME NEW v \in Vertex, IInv, WorkerRemoved(v) PROVE IInv'
<1> USE DEF IInv, WorkerRemoved
<1>1. TypeOK'
  BY DEF TypeOK, VertexTypeOK, CommitTypeOK, MainTypeOK, Running
<1>2. BackgroundCoversWatch'
  BY DEF BackgroundCoversWatch, Running
<1>3. Fresh'
  BY DEF Fresh
<1>4. Owned'
  BY DEF Owned, Running, UniqueNames
<1>5. Pending'
  BY DEF Pending, UniqueNames
<1>6. Syncing'
  BY DEF Syncing, Running
<1>7. Quiet'
  BY DEF Quiet, CommitPlaces
<1>8. Installed'
  BY DEF Installed, On, IdlePlaces, Places
<1>9. Removing'
  BY DEF Removing, On, Gone
<1>10. Starting'
  BY DEF Starting, On
<1>11. Stopping'
  BY DEF Stopping, On
<1>12. NoPanicUnlessFailed' /\ Control' /\ Swapped' /\ Booted'
  BY DEF NoPanicUnlessFailed, Control, CommitPlaces, Swapped, Booted, On
<1> QED
  BY <1>1, <1>2, <1>3, <1>4, <1>5, <1>6, <1>7, <1>8, <1>9, <1>10, <1>11, <1>12

LEMMA WorkerExitsKeeps == ASSUME NEW v \in Vertex, IInv, WorkerExits(v) PROVE IInv'
<1> USE DEF IInv, WorkerExits
<1>1. TypeOK'
  <2>1. worker' \in [Vertex -> {"none", "exited"} \cup Running]
    BY DEF TypeOK, VertexTypeOK
  <2>2. workerErr' \subseteq Vertex
    BY DEF TypeOK, VertexTypeOK
  <2>3. panicked' \in Panics
    BY DEF TypeOK, MainTypeOK, Panics
  <2> QED
    BY <2>1, <2>2, <2>3 DEF TypeOK, VertexTypeOK, CommitTypeOK, MainTypeOK
<1>2. NoPanicUnlessFailed'
  BY DEF NoPanicUnlessFailed
<1>3. BackgroundCoversWatch'
  BY DEF BackgroundCoversWatch, Running, TypeOK, VertexTypeOK, CommitTypeOK, MainTypeOK
<1>4. Fresh'
  BY DEF Fresh, TypeOK, VertexTypeOK, CommitTypeOK, MainTypeOK
<1>5. Owned'
  BY DEF Owned, Running, UniqueNames, TypeOK, VertexTypeOK, CommitTypeOK, MainTypeOK
<1>6. Pending'
  BY DEF Pending, UniqueNames, TypeOK, VertexTypeOK, CommitTypeOK, MainTypeOK
<1>7. Syncing'
  BY DEF Syncing, Running, TypeOK, VertexTypeOK, CommitTypeOK, MainTypeOK
<1>8. Quiet'
  BY DEF Quiet, CommitPlaces, TypeOK, VertexTypeOK, CommitTypeOK, MainTypeOK
<1>9. Installed'
  BY DEF Installed, On, IdlePlaces, Places, TypeOK, VertexTypeOK, CommitTypeOK,
         MainTypeOK
<1>10. Removing'
  BY DEF Removing, On, Gone, TypeOK, VertexTypeOK, CommitTypeOK, MainTypeOK
<1>11. Starting'
  BY DEF Starting, On, TypeOK, VertexTypeOK, CommitTypeOK, MainTypeOK
<1>12. Stopping'
  BY DEF Stopping, On, TypeOK, VertexTypeOK, CommitTypeOK, MainTypeOK
<1>13. Control' /\ Swapped' /\ Booted'
  BY DEF Control, CommitPlaces, Swapped, Booted, On
<1> QED
  BY <1>1, <1>2, <1>3, <1>4, <1>5, <1>6, <1>7, <1>8, <1>9, <1>10, <1>11, <1>12, <1>13

LEMMA CancelKeeps == ASSUME IInv, Cancel PROVE IInv'
<1> USE DEF IInv, Cancel
<1>1. TypeOK'
  BY DEF TypeOK, VertexTypeOK, CommitTypeOK, MainTypeOK
<1>2. NoPanicUnlessFailed' /\ BackgroundCoversWatch' /\ Control' /\ Fresh' /\ Owned'
      /\ Pending' /\ Syncing' /\ Swapped' /\ Quiet' /\ Booted' /\ Installed'
      /\ Removing' /\ Starting' /\ Stopping'
  BY DEF NoPanicUnlessFailed, BackgroundCoversWatch, Running, Control, CommitPlaces,
         Fresh, Owned, UniqueNames, Pending, Syncing, Swapped, Quiet, Booted, On,
         Installed, IdlePlaces, Places, Removing, Gone, Starting, Stopping
<1> QED
  BY <1>1, <1>2

LEMMA DeployClosesKeeps == ASSUME IInv, DeployCloses PROVE IInv'
<1> USE DEF IInv, DeployCloses
<1>1. TypeOK'
  BY DEF TypeOK, VertexTypeOK, CommitTypeOK, MainTypeOK
<1>2. NoPanicUnlessFailed' /\ BackgroundCoversWatch' /\ Control' /\ Fresh' /\ Owned'
      /\ Pending' /\ Syncing' /\ Swapped' /\ Quiet' /\ Booted' /\ Installed'
      /\ Removing' /\ Starting' /\ Stopping'
  BY DEF NoPanicUnlessFailed, BackgroundCoversWatch, Running, Control, CommitPlaces,
         Fresh, Owned, UniqueNames, Pending, Syncing, Swapped, Quiet, Booted, On,
         Installed, IdlePlaces, Places, Removing, Gone, Starting, Stopping
<1> QED
  BY <1>1, <1>2

LEMMA InitHolds == Init => IInv
<1> SUFFICES ASSUME Init PROVE IInv
  OBVIOUS
<1> USE DEF Init
<1>1. TypeOK
  <2>1. VertexTypeOK /\ CommitTypeOK
    BY DEF VertexTypeOK, CommitTypeOK
  <2>2. 0 \in 0..MaxLoads
    OBVIOUS
  <2>3. MainTypeOK
    BY <2>2 DEF MainTypeOK, Places, Panics
  <2> QED
    BY <2>1, <2>3 DEF TypeOK
<1>2. Names(graph) = {} /\ Kinds(graph) = {} /\ On = {}
  BY DEF Names, Kinds, On
<1>3. Fresh /\ Owned /\ NoPanicUnlessFailed /\ BackgroundCoversWatch
  BY DEF Fresh, Owned, UniqueNames, Running, NoPanicUnlessFailed, BackgroundCoversWatch
<1>4. Control /\ Pending /\ Syncing /\ Swapped /\ Quiet /\ Booted
  BY DEF Control, CommitPlaces, Pending, Syncing, Swapped, Quiet, Booted
<1>5. Installed /\ Removing /\ Starting /\ Stopping
  BY <1>2 DEF Installed, Removing, Starting, Stopping
<1> QED
  BY <1>1, <1>3, <1>4, <1>5 DEF IInv

LEMMA StutterKeeps == ASSUME IInv, UNCHANGED vars PROVE IInv'
<1> USE DEF IInv, vars
<1>1. TypeOK'
  BY DEF TypeOK, VertexTypeOK, CommitTypeOK, MainTypeOK
<1>2. Control' /\ Fresh' /\ Owned' /\ NoPanicUnlessFailed' /\ BackgroundCoversWatch'
  BY DEF Control, Fresh, Owned, UniqueNames, NoPanicUnlessFailed, BackgroundCoversWatch
<1>3. Pending' /\ Syncing' /\ Swapped' /\ Quiet' /\ Booted'
  BY DEF Pending, UniqueNames, Syncing, Swapped, Quiet, Booted, On
<1>4. Installed' /\ Removing' /\ Starting' /\ Stopping'
  BY DEF Installed, Removing, Gone, Starting, Stopping, On
<1> QED
  BY <1>1, <1>2, <1>3, <1>4

LEMMA NextKeeps == IInv /\ [Next]_vars => IInv'
<1> SUFFICES ASSUME IInv, [Next]_vars PROVE IInv'
  OBVIOUS
<1>1. CASE MainNext
  BY <1>1, DeployKeeps, NewGraphKeeps, DeployExitedKeeps DEF MainNext
<1>2. CASE PauseNext
  BY <1>2, PausedKeeps, ResumedKeeps, PauseVertexKeeps, ResumeVertexKeeps DEF PauseNext
<1>3. CASE SyncNext
  BY <1>3, SendRecvKeeps, SendRecvFailsKeeps, GraphSyncKeeps, CleanupKeeps,
     CleanupFailsKeeps, SwapKeeps, vertexRemoveFnKeeps, vertexAddFnKeeps,
     vertexAddFnFailsKeeps DEF SyncNext
<1>4. CASE CommitNext
  BY <1>4, StartBackgroundFailsKeeps, BackgroundDoneKeeps, FreesDoneKeeps,
     CommittedKeeps,
     PruneFailsKeeps, ShutdownKeeps, ShutdownReturnsKeeps, StartBackgroundKeeps,
     StopBackgroundKeeps, StartWorkerKeeps, FreeKeeps DEF CommitNext
<1>5. CASE WorkerNext
  BY <1>5, WorkerStopsKeeps, WorkerRemovedKeeps, WorkerExitsKeeps DEF WorkerNext
<1>6. CASE WorldNext
  BY <1>6, CancelKeeps, DeployClosesKeeps, BackgroundReadyKeeps, BackgroundExitsKeeps
     DEF WorldNext
<1>7. CASE Terminated \/ UNCHANGED vars
  BY <1>7, StutterKeeps DEF Terminated
<1> QED
  BY <1>1, <1>2, <1>3, <1>4, <1>5, <1>6, <1>7 DEF Next, EngineNext

LEMMA Inductive == Spec => []IInv
  BY InitHolds, NextKeeps, PTL DEF Spec

\* Every vertex of the graph has a state at all times, so that none of the
\* lookups obj.state[vertex] of Pause, Resume and Commit yields nil.
THEOREM EngineTypes == Spec => []TypeOK
<1>1. IInv => TypeOK
  BY DEF IInv
<1> QED
  BY Inductive, <1>1, PTL

\* Unless a step of the main loop failed with the engine paused, neither Pause,
\* nor Resume, nor the closing of removeDone ever panics.
THEOREM NoPanic == Spec => []NoPanicUnlessFailed
<1>1. IInv => NoPanicUnlessFailed
  BY DEF IInv
<1> QED
  BY Inductive, <1>1, PTL

\* Commit has the graph to itself, and no resource ever has two Workers, after
\* failed commits, too.
THEOREM Exclusive == Spec => []CommitIsExclusive
<1>1. IInv => NobodyRunsDuringCommit
  BY DEF IInv, NobodyRunsDuringCommit, Quiet, CommitPlaces, TypeOK, MainTypeOK, Places
<1>2. IInv => OneWorkerPerName
  BY DEF IInv, OneWorkerPerName, Owned, UniqueNames
<1> QED
  BY Inductive, <1>1, <1>2, PTL DEF CommitIsExclusive

\* The background function of a kind runs, and is ready or has ended by itself,
\* as long as some Worker of that kind has not returned.
THEOREM BackgroundFirst == Spec => []BackgroundCoversWatch
<1>1. IInv => BackgroundCoversWatch
  BY DEF IInv
<1> QED
  BY Inductive, <1>1, PTL

\* Whatever graphs came before, a resumed engine has what its graph needs, and
\* nothing of an earlier one.
THEOREM GraphIsInstalled == Spec => []GraphInstalled
<1>1. IInv => GraphInstalled
  BY DEF IInv, GraphInstalled, Control, Installed, IdlePlaces, Places, On
<1> QED
  BY Inductive, <1>1, PTL

\* When Shutdown returns and nothing had failed, no state, sender, retry budget,
\* Worker or background function is left.
THEOREM CleanExit == Spec => []ExitIsClean
<1>1. IInv => ExitIsClean
  <2> SUFFICES ASSUME IInv, pc = "exited", failures = {}
               PROVE  /\ graph = {} /\ state = {} /\ senders = {} /\ metas = {}
                      /\ \A v \in Vertex : worker[v] \notin Running
                      /\ \A k \in Kind : bg[k] = "off"
    BY DEF ExitIsClean
  <2>1. /\ graph = {} /\ state = {} /\ senders = {} /\ metas = Names({})
        /\ On = Kinds({})
    BY DEF IInv, Installed, IdlePlaces, Places
  <2>2. Names({}) = {} /\ Kinds({}) = {}
    BY DEF Names, Kinds
  <2>3. \A v \in Vertex : worker[v] \notin Running
    BY <2>1 DEF IInv, Owned
  <2> QED
    BY <2>1, <2>2, <2>3 DEF On
<1> QED
  BY Inductive, <1>1, PTL

\* No step takes the metas, and with them the retries that are left, from a
\* resource that is in the graph before and after it.
THEOREM RetriesSurvive == Spec => RetriesSurviveReplacement
<1>1. ASSUME IInv, [Next]_vars
      PROVE  [Names(graph) \cap Names(graph') \cap metas \subseteq metas']_vars
  <2>1. CASE Swap
    <3>1. free \subseteq graph /\ graph \subseteq state /\ UniqueNames(graph)
      <4>1. pc = "removing"
        BY <2>1 DEF Swap
      <4> QED
        BY <1>1, <4>1 DEF IInv, Syncing, Owned, TypeOK
    <3>2. ASSUME NEW v \in graph', NameOf(v) \in metas PROVE NameOf(v) \in metas'
      <4>1. CASE v \in start
        BY <2>1, <3>2, <4>1 DEF Swap, CollectMetas, Names
      <4>2. CASE v \in graph /\ v \notin free
        <5>1. NameOf(v) \notin Names(free)
          BY <3>1, <4>2 DEF Names, UniqueNames
        <5>2. NameOf(v) \in Names(state)
          BY <3>1, <4>2 DEF Names
        <5> QED
          BY <2>1, <3>2, <5>1, <5>2 DEF Swap, CollectMetas
      <4> QED
        BY <2>1, <4>1, <4>2 DEF Swap
    <3> QED
      BY <3>2 DEF Names
  <2>2. CASE ~Swap
    <3>1. metas \subseteq metas'
      <4>1. CASE MainNext
        BY <4>1 DEF MainNext, Deploy, NewGraph, DeployExited
      <4>2. CASE PauseNext
        BY <4>2 DEF PauseNext, Paused, Resumed, PauseVertex, ResumeVertex
      <4>3. CASE SyncNext
        BY <2>2, <4>3 DEF SyncNext, SendRecv, SendRecvFails, GraphSync, Cleanup,
           CleanupFails, vertexRemoveFn, vertexAddFn, vertexAddFnFails
      <4>4. CASE CommitNext
        BY <4>4 DEF CommitNext, StartBackgroundFails, BackgroundDone, FreesDone,
           Committed,
           PruneFails, Shutdown, ShutdownReturns, StartBackground, StopBackground,
           StartWorker, Free
      <4>5. CASE WorkerNext
        BY <4>5 DEF WorkerNext, WorkerStops, WorkerRemoved, WorkerExits
      <4>6. CASE WorldNext
        BY <4>6 DEF WorldNext, Cancel, DeployCloses, BackgroundReady, BackgroundExits
      <4>7. CASE Terminated \/ UNCHANGED vars
        BY <4>7 DEF Terminated, vars
      <4> QED
        BY <1>1, <4>1, <4>2, <4>3, <4>4, <4>5, <4>6, <4>7 DEF Next, EngineNext
    <3> QED
      BY <3>1
  <2> QED
    BY <2>1, <2>2
<1> QED
  BY Inductive, <1>1, PTL DEF Spec, RetriesSurviveReplacement
=============================================================================

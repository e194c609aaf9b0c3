------------------------------ MODULE Process ------------------------------
(***************************************************************************)
(* How the vertices of a resource graph run in order                       *)
(* (engine/graph/actions.go, refresh.go, engine.go): Process of one vertex *)
(* compares timestamps with its prerequisites, puts itself off and pokes   *)
(* them back, or else runs CheckApply, stamps itself and pokes the         *)
(* vertices that depend on it. Refresh notifications travel along edges.   *)
(* Every vertex has a Worker of its own, and all of them run concurrently. *)
(*                                                                         *)
(* A timestamp is only ever compared with that of a neighbour, so the      *)
(* model keeps the outcome: fresh is the set of edges whose source has the *)
(* greater timestamp. What happens inside one Worker is in module Worker.  *)
(***************************************************************************)
EXTENDS Naturals

CONSTANTS
    Vertex,
    Edge,         \* a set of pairs <<from, to>>
    Notify,       \* the edges with Meta:notify
    Refreshable,  \* resources that implement RefreshableRes
    Noop,         \* resources with Meta:noop
    Hidden,       \* resources with Meta:hidden
    WallClock,    \* may the clock stand still or step back ?
    MaxEvents     \* bound: events after the initial ones

ASSUME EdgeAssumption == Edge \subseteq Vertex \X Vertex /\ Notify \subseteq Edge
\* the graph was sorted topologically before it was committed (lib/main.go)
ASSUME DagAssumption ==
    \A S \in SUBSET Vertex :
        S # {} => \E v \in S : \A p \in S : <<p, v>> \notin Edge
ASSUME FlagAssumption == WallClock \in BOOLEAN
ASSUME BoundAssumption == MaxEvents \in Nat

VARIABLES
    worker,       \* where the Worker of each vertex is
    event,        \* is Watch blocked on sending an event ?
    started,      \* has the initial event of Watch arrived ?
    poked,        \* is there a message in pokeChan ?
    isStateOK,    \* State.isStateOK
    fresh,        \* edges whose source has the greater timestamp
    ran,          \* vertices with a timestamp
    refresh,      \* edges with Edge.refresh set
    willRefresh,  \* the local variable refresh of Process
    checkOK,      \* the local variable checkOK of Process
    todo,         \* the vertices that Process has yet to poke
    engine,       \* where the goroutine that pauses and resumes is
    left,         \* the vertices it has yet to pause or resume
    fastPause,    \* Engine.fastPause
    events,       \* bound: events so far
    postponed,    \* history: Process gave up for its prerequisites, and no run since
    unserved      \* history: edges with a change that no refresh was run for

graphVars == <<fresh, ran, refresh>>
localVars == <<willRefresh, checkOK, todo>>
engineVars == <<engine, left, fastPause>>
vars == <<worker, event, started, poked, isStateOK, graphVars, localVars,
          engineVars, events, postponed, unserved>>

In(v) == {e \in Edge : e[2] = v}
Out(v) == {e \in Edge : e[1] = v}
IncomingGraphVertices(v) == {p \in Vertex : <<p, v>> \in Edge}
OutgoingGraphVertices(v) == {w \in Vertex : <<v, w>> \in Edge}

\* every Worker was resumed, and its Watch is about to send the initial event
Init ==
    /\ worker = [v \in Vertex |-> "idle"] /\ event = [v \in Vertex |-> TRUE]
    /\ started = [v \in Vertex |-> FALSE] /\ poked = [v \in Vertex |-> FALSE]
    /\ isStateOK = [v \in Vertex |-> FALSE]
    /\ fresh = {} /\ ran = {} /\ refresh = {}
    /\ willRefresh = [v \in Vertex |-> FALSE] /\ checkOK = [v \in Vertex |-> FALSE]
    /\ todo = [v \in Vertex |-> {}]
    /\ engine = "running" /\ left = {} /\ fastPause = FALSE
    /\ events = 0 /\ postponed = {} /\ unserved = {}

At(v, from, to) == worker[v] = from /\ worker' = [worker EXCEPT ![v] = to]

-----------------------------------------------------------------------------
(* The process loop of Worker                                              *)

Event(v) ==
    /\ events < MaxEvents /\ ~event[v] /\ worker[v] # "failed"
    /\ event' = [event EXCEPT ![v] = TRUE] /\ events' = events + 1
    /\ UNCHANGED <<worker, started, poked, isStateOK, graphVars, localVars,
                   engineVars, postponed, unserved>>

\* an event marks the vertex dirty, redundant pokes are dropped
RecvEvent(v) ==
    /\ event[v] /\ At(v, "idle", "begin")
    /\ event' = [event EXCEPT ![v] = FALSE]
    /\ started' = [started EXCEPT ![v] = TRUE]
    /\ poked' = [poked EXCEPT ![v] = FALSE]
    /\ isStateOK' = [isStateOK EXCEPT ![v] = FALSE]
    /\ UNCHANGED <<graphVars, localVars, engineVars, events, postponed, unserved>>

\* a poke does nothing before the initial event
RecvPoke(v) ==
    /\ poked[v] /\ At(v, "idle", IF started[v] THEN "begin" ELSE "idle")
    /\ poked' = [poked EXCEPT ![v] = FALSE]
    /\ UNCHANGED <<event, started, isStateOK, graphVars, localVars, engineVars,
                   events, postponed, unserved>>

\* the retry loop: its select may receive an event, then it runs Process again
RecvEventInRetry(v) ==
    /\ event[v] /\ worker[v] = "retry"
    /\ event' = [event EXCEPT ![v] = FALSE]
    /\ isStateOK' = [isStateOK EXCEPT ![v] = FALSE]
    /\ UNCHANGED <<worker, started, poked, graphVars, localVars, engineVars,
                   events, postponed, unserved>>

Retry(v) ==
    /\ At(v, "retry", "begin")
    /\ UNCHANGED <<event, started, poked, isStateOK, graphVars, localVars,
                   engineVars, events, postponed, unserved>>

-----------------------------------------------------------------------------
(* Process                                                                 *)

BadTimestamps(v) == {p \in IncomingGraphVertices(v) : <<p, v>> \notin fresh}

OKTimestamp(v) == BadTimestamps(v) = {}

\* Process puts itself off; ErrBackPoke is returned when all of them are poked
Postpone(v) ==
    /\ ~OKTimestamp(v) /\ At(v, "begin", "backpoke")
    /\ todo' = [todo EXCEPT ![v] = BadTimestamps(v)]
    /\ postponed' = postponed \cup {v}
    /\ UNCHANGED <<event, started, poked, isStateOK, graphVars, willRefresh,
                   checkOK, engineVars, events, unserved>>

BackPoke(v) ==
    /\ worker[v] = "backpoke"
    /\ \E p \in todo[v] :
         /\ poked' = [poked EXCEPT ![p] = TRUE]
         /\ todo' = [todo EXCEPT ![v] = @ \ {p}]
    /\ UNCHANGED <<worker, event, started, isStateOK, graphVars, willRefresh,
                   checkOK, engineVars, events, postponed, unserved>>

\* mutant: a prerequisite that is behind does not put Process off
GoAheadAnyway(v) ==
    /\ At(v, "begin", "ready")
    /\ UNCHANGED <<event, started, poked, isStateOK, graphVars, localVars,
                   engineVars, events, postponed, unserved>>

\* the timestamps are in order; the semaphores and send/recv take their time
GoAhead(v) ==
    /\ OKTimestamp(v) /\ At(v, "begin", "ready")
    /\ UNCHANGED <<event, started, poked, isStateOK, graphVars, localVars,
                   engineVars, events, postponed, unserved>>

RefreshPending(v) ==
    /\ At(v, "ready", "apply")
    /\ willRefresh' = [willRefresh EXCEPT ![v] = In(v) \cap Notify \cap refresh # {}]
    /\ UNCHANGED <<event, started, poked, isStateOK, graphVars, checkOK, todo,
                   engineVars, events, postponed, unserved>>

DoRefresh(v) == willRefresh[v] /\ v \in Refreshable

\* CheckApply is skipped: the state is cached, a noop could not do the refresh,
\* or the resource is hidden
Skip(v) ==
    /\ At(v, "apply", "store")
    /\ \/ ~DoRefresh(v) /\ isStateOK[v] /\ checkOK' = [checkOK EXCEPT ![v] = TRUE]
       \/ DoRefresh(v) /\ v \in Noop /\ checkOK' = [checkOK EXCEPT ![v] = FALSE]
       \/ /\ v \in Hidden /\ ~(DoRefresh(v) /\ v \in Noop)
          /\ ~(~DoRefresh(v) /\ isStateOK[v])
          /\ checkOK' = [checkOK EXCEPT ![v] = TRUE]
    /\ UNCHANGED <<event, started, poked, isStateOK, graphVars, willRefresh, todo,
                   engineVars, events, postponed, unserved>>

RunsCheckApply(v) ==
    /\ DoRefresh(v) \/ ~isStateOK[v]
    /\ ~(DoRefresh(v) /\ v \in Noop) /\ v \notin Hidden

\* CheckApply returns either verdict; it is the moment the refresh is run
CheckApply(v) ==
    /\ RunsCheckApply(v) /\ At(v, "apply", "store")
    /\ \E ok \in BOOLEAN : checkOK' = [checkOK EXCEPT ![v] = ok]
    /\ unserved' = IF DoRefresh(v) THEN unserved \ In(v) ELSE unserved
    /\ UNCHANGED <<event, started, poked, isStateOK, graphVars, willRefresh, todo,
                   engineVars, events, postponed>>

\* an error is retried, or it was the last retry
CheckApplyError(v) ==
    /\ RunsCheckApply(v)
    /\ \E next \in {"retry", "failed"} : At(v, "apply", next)
    /\ UNCHANGED <<event, started, poked, isStateOK, graphVars, localVars,
                   engineVars, events, postponed, unserved>>

\* without noop the state is good now, and the notification was dealt with
Store(v) ==
    /\ At(v, "store", "notify")
    /\ isStateOK' = [isStateOK EXCEPT ![v] = @ \/ v \notin Noop]
    /\ refresh' = IF v \notin Noop /\ willRefresh[v] THEN refresh \ (In(v) \cap Notify)
                                                    ELSE refresh
    /\ willRefresh' = [willRefresh EXCEPT ![v] = FALSE]    \* not read again
    /\ UNCHANGED <<event, started, poked, fresh, ran, checkOK, todo, engineVars,
                   events, postponed, unserved>>

SetDownstreamRefresh(v) ==
    /\ At(v, "notify", "stamp")
    /\ LET edges == IF ~checkOK[v] /\ v \notin Noop THEN Out(v) \cap Notify ELSE {}
       IN  refresh' = refresh \cup edges /\ unserved' = unserved \cup edges
    /\ checkOK' = [checkOK EXCEPT ![v] = FALSE]            \* not read again
    /\ UNCHANGED <<event, started, poked, isStateOK, fresh, ran, willRefresh, todo,
                   engineVars, events, postponed>>

\* mutant: the vertices that depend on this one are not poked
UpdateTimestampOnly(v) ==
    /\ At(v, "stamp", "idle")
    /\ fresh' = (fresh \cup Out(v)) \ In(v)
    /\ ran' = ran \cup {v} /\ postponed' = postponed \ {v}
    /\ UNCHANGED <<event, started, poked, isStateOK, refresh, localVars,
                   engineVars, events, unserved>>

\* what v is compared with after it took the time: a clock that goes forward makes
\* it the newest, one that stood still or was set back anything but older than
\* a vertex that never ran
Compared(v) ==
    IF WallClock
      THEN {(fresh \ (In(v) \cup Out(v))) \cup newer :
               newer \in {N \in SUBSET (In(v) \cup Out(v)) :
                            {e \in Out(v) : e[2] \notin ran} \subseteq N}}
      ELSE {(fresh \cup Out(v)) \ In(v)}

\* time.Now().UnixNano(), before anyone is poked
UpdateTimestamp(v) ==
    /\ At(v, "stamp", "poke")
    /\ fresh' \in Compared(v)
    /\ ran' = ran \cup {v} /\ postponed' = postponed \ {v}
    /\ todo' = [todo EXCEPT ![v] = OutgoingGraphVertices(v)]
    /\ UNCHANGED <<event, started, poked, isStateOK, refresh, willRefresh, checkOK,
                   engineVars, events, unserved>>

\* a vertex that another prerequisite holds back is left to that one
Pokes(w) == OKTimestamp(w) /\ ~fastPause

Poke(v) ==
    /\ worker[v] = "poke"
    /\ \E w \in todo[v] :
         /\ poked' = [poked EXCEPT ![w] = @ \/ Pokes(w)]
         /\ todo' = [todo EXCEPT ![v] = @ \ {w}]
    /\ UNCHANGED <<worker, event, started, isStateOK, graphVars, willRefresh,
                   checkOK, engineVars, events, postponed, unserved>>

ProcessReturns(v) ==
    /\ worker[v] \in {"backpoke", "poke"} /\ todo[v] = {}
    /\ worker' = [worker EXCEPT ![v] = "idle"]
    /\ UNCHANGED <<event, started, poked, isStateOK, graphVars, localVars,
                   engineVars, events, postponed, unserved>>

-----------------------------------------------------------------------------
(* Engine.Pause and Engine.Resume, one vertex after the other              *)

Pause ==
    /\ engine = "running"
    /\ engine' = "pausing" /\ left' = Vertex
    /\ fastPause' \in BOOLEAN
    /\ UNCHANGED <<worker, event, started, poked, isStateOK, graphVars, localVars,
                   events, postponed, unserved>>

\* the places of a Worker that take a pause; one that failed is passed over
PausePoint == [idle |-> "paused", retry |-> "pausedRetry", failed |-> "failed"]

\* Pause follows the topological order
PauseVertex(v) ==
    /\ engine = "pausing" /\ v \in left
    /\ \A p \in left : <<p, v>> \notin Edge
    /\ worker[v] \in DOMAIN PausePoint
    /\ worker' = [worker EXCEPT ![v] = PausePoint[worker[v]]]
    /\ left' = left \ {v}
    /\ UNCHANGED <<event, started, poked, isStateOK, graphVars, localVars, engine,
                   fastPause, events, postponed, unserved>>

\* Pause returns, SetFastPause(false), and Resume is called
Paused ==
    /\ engine = "pausing" /\ left = {}
    /\ engine' = "resuming" /\ left' = Vertex /\ fastPause' = FALSE
    /\ UNCHANGED <<worker, event, started, poked, isStateOK, graphVars, localVars,
                   events, postponed, unserved>>

\* mutant: a resumed vertex waits for the next event
ResumesIdle(v) == "idle"

\* after the main select, Process may run if Watch has started
Resumes(v) == CASE worker[v] = "failed" -> "failed"
                [] worker[v] = "pausedRetry" -> "retry"
                [] OTHER -> IF started[v] THEN "begin" ELSE "idle"

\* Resume follows the reverse order
ResumeVertex(v) ==
    /\ engine = "resuming" /\ v \in left
    /\ \A w \in left : <<v, w>> \notin Edge
    /\ worker' = [worker EXCEPT ![v] = Resumes(v)]
    /\ poked' = [poked EXCEPT ![v] = @ /\ worker[v] # "paused"]
    /\ left' = left \ {v}
    /\ UNCHANGED <<event, started, isStateOK, graphVars, localVars, engine,
                   fastPause, events, postponed, unserved>>

Resumed ==
    /\ engine = "resuming" /\ left = {}
    /\ engine' = "running"
    /\ UNCHANGED <<worker, event, started, poked, isStateOK, graphVars, localVars,
                   left, fastPause, events, postponed, unserved>>

LoopNext(v) ==
    RecvEvent(v) \/ RecvPoke(v) \/ RecvEventInRetry(v) \/ Retry(v)
ProcessNext(v) ==
    Postpone(v) \/ BackPoke(v) \/ GoAhead(v) \/ RefreshPending(v) \/ Skip(v)
        \/ CheckApply(v) \/ CheckApplyError(v) \/ Store(v)
        \/ SetDownstreamRefresh(v) \/ UpdateTimestamp(v) \/ Poke(v)
        \/ ProcessReturns(v)
EngineNext == Pause \/ Paused \/ Resumed
                \/ \E v \in Vertex : PauseVertex(v) \/ ResumeVertex(v)

Next == EngineNext \/ \E v \in Vertex : Event(v) \/ LoopNext(v) \/ ProcessNext(v)

Spec == Init /\ [][Next]_vars

(***************************************************************************)
(* Every Worker runs; a pause or an event that can be taken again and      *)
(* again is taken in the end (Go selects at random among the ready cases). *)
(* No CheckApply has to succeed, however often it is retried.              *)
(***************************************************************************)
Fairness ==
    /\ WF_vars(Paused) /\ WF_vars(Resumed)
    /\ \A v \in Vertex :
         /\ WF_vars(LoopNext(v)) /\ WF_vars(ProcessNext(v))
         /\ SF_vars(RecvEvent(v)) /\ SF_vars(PauseVertex(v)) /\ WF_vars(ResumeVertex(v))

FairSpec == Spec /\ Fairness

(***************************************************************************)
(* Properties                                                              *)
(***************************************************************************)

WorkerStates ==
    {"idle", "begin", "backpoke", "ready", "apply", "store", "notify", "stamp",
     "poke", "retry", "failed", "paused", "pausedRetry"}

VertexTypeOK ==
    /\ worker \in [Vertex -> WorkerStates]
    /\ event \in [Vertex -> BOOLEAN] /\ started \in [Vertex -> BOOLEAN]
    /\ poked \in [Vertex -> BOOLEAN] /\ isStateOK \in [Vertex -> BOOLEAN]
    /\ willRefresh \in [Vertex -> BOOLEAN] /\ checkOK \in [Vertex -> BOOLEAN]
    /\ todo \in [Vertex -> SUBSET Vertex]
GraphTypeOK ==
    /\ fresh \subseteq Edge /\ ran \subseteq Vertex
    /\ refresh \subseteq Notify /\ unserved \subseteq Notify
    /\ postponed \subseteq Vertex /\ events \in 0..MaxEvents
EngineTypeOK ==
    /\ engine \in {"running", "pausing", "resuming"} /\ left \subseteq Vertex
    /\ fastPause \in BOOLEAN

\* Type invariant; fastPause is only set while Pause is at work
TypeOK == VertexTypeOK /\ GraphTypeOK /\ EngineTypeOK
            /\ (fastPause => engine = "pausing")

\* A vertex runs for the first time only after each of its prerequisites did so
\* successfully.
PrerequisitesFirst ==
    \A v \in ran : IncomingGraphVertices(v) \subseteq ran

\* A vertex works only while each of its prerequisites has succeeded more recently
\* than it last did itself, although they may run again in the meantime.
PrerequisitesNewer ==
    \A v \in Vertex :
        worker[v] \in {"ready", "apply", "store", "notify", "stamp"} => In(v) \subseteq fresh

Quiescent ==
    /\ engine = "running"
    /\ \A v \in Vertex : worker[v] = "idle" /\ ~poked[v] /\ ~event[v]

\* "there is at least another one that will poke this...", Process says of a poke
\* that it leaves out. When nothing moves any more, nothing was forgotten: no vertex that put itself
\* off is still waiting, and none is dirty, whatever pokes were dropped, skipped
\* for another prerequisite or skipped by a fast pause.
NoLostWork ==
    Quiescent => postponed = {} /\ \A v \in Vertex \ Noop : isStateOK[v]

\* once events stop, the graph comes to rest with every vertex clean and none put
\* off, unless some vertex has failed for good or is retried for ever, or the engine
\* is paused over and over
ComesToRest ==
    \/ <>(\E v \in Vertex : worker[v] = "failed")
    \/ []<>(\E v \in Vertex : worker[v] = "retry") \/ []<>(engine # "running")
    \/ <>[](\A v \in Vertex : worker[v] = "idle" /\ v \notin postponed
                                /\ (v \in Noop \/ isStateOK[v]))

OnePrerequisite == \A v \in Vertex : \A e, f \in In(v) : e = f

\* In a graph whose vertices have at most one prerequisite each, pokes and back
\* pokes do not go round for ever: the graph comes to rest. With two prerequisites
\* of one vertex they may (EveryGraphConverges).
Converges == OnePrerequisite => ComesToRest

(***************************************************************************)
(* What the documentation and comments say, and the code does not do       *)
(***************************************************************************)

\* docs/resource-guide.md: "Refresh notifications are generated by any resource
\* when an action is applied by that resource and are transmitted through graph
\* edges which have enabled their propagation." When nothing moves any more, no
\* notification is left waiting on its edge.
NotificationsArrive ==
    Quiescent => \A e \in refresh : e[2] \in Noop

\* Process, engine/graph/actions.go: "the graph should eventually converge". Two
\* prerequisites that finish in step can each poke a vertex that puts itself off and
\* pokes both back, time and again.
EveryGraphConverges == ComesToRest

\* engine/edge.go: "is there a notify pending for the dest vertex ?" As long as
\* no refresh has been run for a change, its notification is pending.
PendingUntilServed ==
    \A e \in unserved : e[2] \in Refreshable \ (Noop \cup Hidden) => e \in refresh
=============================================================================

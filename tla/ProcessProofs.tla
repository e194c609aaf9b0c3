--------------------------- MODULE ProcessProofs ---------------------------
(***************************************************************************)
(* The safety properties of Process, for every acyclic graph.              *)
(***************************************************************************)
EXTENDS Process, TLAPS

FastInPause == fastPause => engine = "pausing"

Working(v) == worker[v] \in {"ready", "apply", "store", "notify", "stamp"}

\* Only a vertex with a timestamp can be newer than another one, and whoever
\* works has prerequisites with one
Ordered ==
    /\ \A e \in fresh : e[1] \in ran
    /\ PrerequisitesFirst
    /\ \A v \in Vertex : Working(v) => IncomingGraphVertices(v) \subseteq ran

\* Holds whatever the clock does
SafeInv == VertexTypeOK /\ GraphTypeOK /\ EngineTypeOK /\ FastInPause /\ Ordered

AtRest == {"paused", "pausedRetry", "failed"}

\* Which vertices are paused while the engine goes through them
PauseOrder ==
    /\ engine = "running" => \A v \in Vertex : worker[v] \notin {"paused", "pausedRetry"}
    /\ engine = "pausing" => \A v \in Vertex \ left : worker[v] \in AtRest
    /\ engine = "resuming" =>
         /\ \A v \in left : worker[v] \in AtRest
         /\ \A v \in Vertex \ left : worker[v] \notin {"paused", "pausedRetry"}

\* Before its initial event arrives, a vertex does nothing, and Watch has it ready
Starting ==
    \A v \in Vertex : ~started[v] =>
        event[v] /\ worker[v] \in {"idle", "paused"} /\ v \notin postponed

\* A dirty vertex is about to be checked, or has put itself off
Clean ==
    \A v \in Vertex \ Noop :
        /\ worker[v] \in {"notify", "stamp", "poke"} => isStateOK[v]
        /\ ~isStateOK[v] => \/ event[v] \/ v \in postponed
                            \/ worker[v] \in {"begin", "ready", "apply", "store",
                                              "retry"} \cup AtRest

\* A vertex that will stamp itself, put itself off, or fail
Busy(p) == event[p] \/ poked[p] \/ worker[p] \notin {"idle", "backpoke", "poke"}

\* A vertex has put itself off from the moment it saw a bad timestamp to its next
\* timestamp
Phases ==
    \A v \in Vertex : /\ worker[v] = "backpoke" => v \in postponed
                      /\ worker[v] = "poke" => v \notin postponed

Waiting(v) == v \in postponed /\ worker[v] \in {"idle", "backpoke"}

\* Each prerequisite that holds back a waiting vertex will run
Behind ==
    \A v, p \in Vertex : Waiting(v) /\ <<p, v>> \in Edge \ fresh =>
        p \in postponed \/ Busy(p) \/ (worker[v] = "backpoke" /\ p \in todo[v])

\* When none holds it back any more, the last one is about to poke it, or has done
\* so, or the pause makes up for it
Woken(v) ==
    \/ \E p \in Vertex : <<p, v>> \in Edge \ fresh
    \/ \E p \in Vertex : worker[p] = "poke" /\ v \in todo[p]
    \/ poked[v] \/ event[v]
    \/ fastPause /\ v \in left
Wakes == \A v \in Vertex : Waiting(v) => Woken(v)

\* Holds if the clock goes forward
WorkInv == PrerequisitesNewer /\ PauseOrder /\ Starting /\ Clean /\ Phases
            /\ Behind /\ Wakes

VertexStep(v) ==
    Event(v) \/ LoopNext(v) \/ ProcessNext(v) \/ PauseVertex(v) \/ ResumeVertex(v)
EngineStep == Pause \/ Paused \/ Resumed

-----------------------------------------------------------------------------
USE DEF vars, graphVars, localVars, engineVars, In, Out, AtRest, Working,
        PrerequisitesFirst, IncomingGraphVertices, Waiting

LEMMA InitSafe == Init => SafeInv
<1> SUFFICES ASSUME Init PROVE SafeInv
  OBVIOUS
<1>1. VertexTypeOK
  BY DEF Init, VertexTypeOK, WorkerStates
<1>2. GraphTypeOK
  BY BoundAssumption DEF Init, GraphTypeOK
<1>3. EngineTypeOK /\ FastInPause /\ Ordered
  BY DEF Init, EngineTypeOK, FastInPause, Ordered
<1>4. QED
  BY <1>1, <1>2, <1>3 DEF SafeInv

LEMMA InitWork == Init => WorkInv
  BY DEF Init, WorkInv, PrerequisitesNewer, PauseOrder, Starting, Clean,
      Phases, Behind, Wakes, Woken

\* Who wakes a vertex does not change when no timestamp does and nobody stops poking
LEMMA StaysWoken ==
    ASSUME NEW u \in Vertex, Woken(u), UNCHANGED <<fresh, left, fastPause>>,
           poked[u] \/ event[u] => poked'[u] \/ event'[u],
           \A p \in Vertex : worker[p] = "poke" =>
               worker'[p] = "poke" /\ todo'[p] = todo[p]
    PROVE  Woken(u)'
<1>1. CASE \E p \in Vertex : <<p, u>> \in Edge \ fresh
  BY <1>1 DEF Woken
<1>2. CASE \E p \in Vertex : worker[p] = "poke" /\ u \in todo[p]
  BY <1>2 DEF Woken
<1>3. CASE poked[u] \/ event[u]
  BY <1>3 DEF Woken
<1>4. CASE fastPause /\ u \in left
  BY <1>4 DEF Woken
<1>5. QED
  BY <1>1, <1>2, <1>3, <1>4 DEF Woken

\* What a vertex does preserves types and order, whatever the clock does
LEMMA SafeVertexStep ==
    ASSUME NEW v \in Vertex, SafeInv, VertexStep(v)
    PROVE  SafeInv'
<1> USE EdgeAssumption, BoundAssumption, FlagAssumption
<1>1. CASE Event(v)
  <2>1. VertexTypeOK'
    BY <1>1 DEF Event, SafeInv, VertexTypeOK, WorkerStates
  <2>2. GraphTypeOK'
    BY <1>1 DEF Event, SafeInv, GraphTypeOK
  <2>3. EngineTypeOK'
    BY <1>1 DEF Event, SafeInv, EngineTypeOK
  <2>4. FastInPause'
    BY <1>1 DEF Event, SafeInv, FastInPause, EngineTypeOK
  <2>5. Ordered'
    BY <1>1
    DEF Event, SafeInv, Ordered, VertexTypeOK, GraphTypeOK, WorkerStates
  <2>6. QED
    BY <2>1, <2>2, <2>3, <2>4, <2>5 DEF SafeInv
<1>2. CASE RecvEvent(v)
  <2>1. VertexTypeOK'
    BY <1>2 DEF RecvEvent, At, SafeInv, VertexTypeOK, WorkerStates
  <2>2. GraphTypeOK'
    BY <1>2 DEF RecvEvent, At, SafeInv, GraphTypeOK
  <2>3. EngineTypeOK'
    BY <1>2 DEF RecvEvent, At, SafeInv, EngineTypeOK
  <2>4. FastInPause'
    BY <1>2 DEF RecvEvent, At, SafeInv, FastInPause, EngineTypeOK
  <2>5. Ordered'
    BY <1>2
    DEF RecvEvent, At, SafeInv, Ordered, VertexTypeOK, GraphTypeOK,
        WorkerStates
  <2>6. QED
    BY <2>1, <2>2, <2>3, <2>4, <2>5 DEF SafeInv
<1>3. CASE RecvPoke(v)
  <2>1. VertexTypeOK'
    BY <1>3 DEF RecvPoke, At, SafeInv, VertexTypeOK, WorkerStates
  <2>2. GraphTypeOK'
    BY <1>3 DEF RecvPoke, At, SafeInv, GraphTypeOK
  <2>3. EngineTypeOK'
    BY <1>3 DEF RecvPoke, At, SafeInv, EngineTypeOK
  <2>4. FastInPause'
    BY <1>3 DEF RecvPoke, At, SafeInv, FastInPause, EngineTypeOK
  <2>5. Ordered'
    BY <1>3
    DEF RecvPoke, At, SafeInv, Ordered, VertexTypeOK, GraphTypeOK,
        WorkerStates
  <2>6. QED
    BY <2>1, <2>2, <2>3, <2>4, <2>5 DEF SafeInv
<1>4. CASE RecvEventInRetry(v)
  <2>1. VertexTypeOK'
    BY <1>4 DEF RecvEventInRetry, SafeInv, VertexTypeOK, WorkerStates
  <2>2. GraphTypeOK'
    BY <1>4 DEF RecvEventInRetry, SafeInv, GraphTypeOK
  <2>3. EngineTypeOK'
    BY <1>4 DEF RecvEventInRetry, SafeInv, EngineTypeOK
  <2>4. FastInPause'
    BY <1>4 DEF RecvEventInRetry, SafeInv, FastInPause, EngineTypeOK
  <2>5. Ordered'
    BY <1>4
    DEF RecvEventInRetry, SafeInv, Ordered, VertexTypeOK, GraphTypeOK,
        WorkerStates
  <2>6. QED
    BY <2>1, <2>2, <2>3, <2>4, <2>5 DEF SafeInv
<1>5. CASE Retry(v)
  <2>1. VertexTypeOK'
    BY <1>5 DEF Retry, At, SafeInv, VertexTypeOK, WorkerStates
  <2>2. GraphTypeOK'
    BY <1>5 DEF Retry, At, SafeInv, GraphTypeOK
  <2>3. EngineTypeOK'
    BY <1>5 DEF Retry, At, SafeInv, EngineTypeOK
  <2>4. FastInPause'
    BY <1>5 DEF Retry, At, SafeInv, FastInPause, EngineTypeOK
  <2>5. Ordered'
    BY <1>5
    DEF Retry, At, SafeInv, Ordered, VertexTypeOK, GraphTypeOK, WorkerStates
  <2>6. QED
    BY <2>1, <2>2, <2>3, <2>4, <2>5 DEF SafeInv
<1>6. CASE Postpone(v)
  <2>1. VertexTypeOK'
    BY <1>6
    DEF Postpone, At, OKTimestamp, BadTimestamps, IncomingGraphVertices,
        SafeInv, VertexTypeOK, WorkerStates
  <2>2. GraphTypeOK'
    BY <1>6
    DEF Postpone, At, OKTimestamp, BadTimestamps, IncomingGraphVertices,
        SafeInv, GraphTypeOK
  <2>3. EngineTypeOK'
    BY <1>6
    DEF Postpone, At, OKTimestamp, BadTimestamps, IncomingGraphVertices,
        SafeInv, EngineTypeOK
  <2>4. FastInPause'
    BY <1>6
    DEF Postpone, At, OKTimestamp, BadTimestamps, IncomingGraphVertices,
        SafeInv, FastInPause, EngineTypeOK
  <2>5. Ordered'
    BY <1>6
    DEF Postpone, At, OKTimestamp, BadTimestamps, IncomingGraphVertices,
        SafeInv, Ordered, VertexTypeOK, GraphTypeOK, WorkerStates
  <2>6. QED
    BY <2>1, <2>2, <2>3, <2>4, <2>5 DEF SafeInv
<1>7. CASE BackPoke(v)
  <2>1. VertexTypeOK'
    BY <1>7 DEF BackPoke, SafeInv, VertexTypeOK, WorkerStates
  <2>2. GraphTypeOK'
    BY <1>7 DEF BackPoke, SafeInv, GraphTypeOK
  <2>3. EngineTypeOK'
    BY <1>7 DEF BackPoke, SafeInv, EngineTypeOK
  <2>4. FastInPause'
    BY <1>7 DEF BackPoke, SafeInv, FastInPause, EngineTypeOK
  <2>5. Ordered'
    BY <1>7
    DEF BackPoke, SafeInv, Ordered, VertexTypeOK, GraphTypeOK, WorkerStates
  <2>6. QED
    BY <2>1, <2>2, <2>3, <2>4, <2>5 DEF SafeInv
<1>8. CASE GoAhead(v)
  <2>1. VertexTypeOK'
    BY <1>8
    DEF GoAhead, At, OKTimestamp, BadTimestamps, IncomingGraphVertices,
        SafeInv, VertexTypeOK, WorkerStates
  <2>2. GraphTypeOK'
    BY <1>8
    DEF GoAhead, At, OKTimestamp, BadTimestamps, IncomingGraphVertices,
        SafeInv, GraphTypeOK
  <2>3. EngineTypeOK'
    BY <1>8
    DEF GoAhead, At, OKTimestamp, BadTimestamps, IncomingGraphVertices,
        SafeInv, EngineTypeOK
  <2>4. FastInPause'
    BY <1>8
    DEF GoAhead, At, OKTimestamp, BadTimestamps, IncomingGraphVertices,
        SafeInv, FastInPause, EngineTypeOK
  <2>5. Ordered'
    BY <1>8
    DEF GoAhead, At, OKTimestamp, BadTimestamps, IncomingGraphVertices,
        SafeInv, Ordered, VertexTypeOK, GraphTypeOK, WorkerStates
  <2>6. QED
    BY <2>1, <2>2, <2>3, <2>4, <2>5 DEF SafeInv
<1>9. CASE RefreshPending(v)
  <2>1. VertexTypeOK'
    BY <1>9 DEF RefreshPending, At, SafeInv, VertexTypeOK, WorkerStates
  <2>2. GraphTypeOK'
    BY <1>9 DEF RefreshPending, At, SafeInv, GraphTypeOK
  <2>3. EngineTypeOK'
    BY <1>9 DEF RefreshPending, At, SafeInv, EngineTypeOK
  <2>4. FastInPause'
    BY <1>9 DEF RefreshPending, At, SafeInv, FastInPause, EngineTypeOK
  <2>5. Ordered'
    BY <1>9
    DEF RefreshPending, At, SafeInv, Ordered, VertexTypeOK, GraphTypeOK,
        WorkerStates
  <2>6. QED
    BY <2>1, <2>2, <2>3, <2>4, <2>5 DEF SafeInv
<1>10. CASE Skip(v)
  <2>1. VertexTypeOK'
    BY <1>10 DEF Skip, At, SafeInv, VertexTypeOK, WorkerStates
  <2>2. GraphTypeOK'
    BY <1>10 DEF Skip, At, SafeInv, GraphTypeOK
  <2>3. EngineTypeOK'
    BY <1>10 DEF Skip, At, SafeInv, EngineTypeOK
  <2>4. FastInPause'
    BY <1>10 DEF Skip, At, SafeInv, FastInPause, EngineTypeOK
  <2>5. Ordered'
    BY <1>10
    DEF Skip, At, SafeInv, Ordered, VertexTypeOK, GraphTypeOK, WorkerStates
  <2>6. QED
    BY <2>1, <2>2, <2>3, <2>4, <2>5 DEF SafeInv
<1>11. CASE CheckApply(v)
  <2>1. VertexTypeOK'
    BY <1>11 DEF CheckApply, At, SafeInv, VertexTypeOK, WorkerStates
  <2>2. GraphTypeOK'
    BY <1>11 DEF CheckApply, At, SafeInv, GraphTypeOK
  <2>3. EngineTypeOK'
    BY <1>11 DEF CheckApply, At, SafeInv, EngineTypeOK
  <2>4. FastInPause'
    BY <1>11 DEF CheckApply, At, SafeInv, FastInPause, EngineTypeOK
  <2>5. Ordered'
    BY <1>11
    DEF CheckApply, At, SafeInv, Ordered, VertexTypeOK, GraphTypeOK,
        WorkerStates
  <2>6. QED
    BY <2>1, <2>2, <2>3, <2>4, <2>5 DEF SafeInv
<1>12. CASE CheckApplyError(v)
  <2>1. VertexTypeOK'
    BY <1>12 DEF CheckApplyError, At, SafeInv, VertexTypeOK, WorkerStates
  <2>2. GraphTypeOK'
    BY <1>12 DEF CheckApplyError, At, SafeInv, GraphTypeOK
  <2>3. EngineTypeOK'
    BY <1>12 DEF CheckApplyError, At, SafeInv, EngineTypeOK
  <2>4. FastInPause'
    BY <1>12 DEF CheckApplyError, At, SafeInv, FastInPause, EngineTypeOK
  <2>5. Ordered'
    BY <1>12
    DEF CheckApplyError, At, SafeInv, Ordered, VertexTypeOK, GraphTypeOK,
        WorkerStates
  <2>6. QED
    BY <2>1, <2>2, <2>3, <2>4, <2>5 DEF SafeInv
<1>13. CASE Store(v)
  <2>1. VertexTypeOK'
    BY <1>13 DEF Store, At, SafeInv, VertexTypeOK, WorkerStates
  <2>2. GraphTypeOK'
    BY <1>13 DEF Store, At, SafeInv, GraphTypeOK
  <2>3. EngineTypeOK'
    BY <1>13 DEF Store, At, SafeInv, EngineTypeOK
  <2>4. FastInPause'
    BY <1>13 DEF Store, At, SafeInv, FastInPause, EngineTypeOK
  <2>5. Ordered'
    BY <1>13
    DEF Store, At, SafeInv, Ordered, VertexTypeOK, GraphTypeOK, WorkerStates
  <2>6. QED
    BY <2>1, <2>2, <2>3, <2>4, <2>5 DEF SafeInv
<1>14. CASE SetDownstreamRefresh(v)
  <2>1. VertexTypeOK'
    BY <1>14 DEF SetDownstreamRefresh, At, SafeInv, VertexTypeOK, WorkerStates
  <2>2. GraphTypeOK'
    BY <1>14 DEF SetDownstreamRefresh, At, SafeInv, GraphTypeOK
  <2>3. EngineTypeOK'
    BY <1>14 DEF SetDownstreamRefresh, At, SafeInv, EngineTypeOK
  <2>4. FastInPause'
    BY <1>14 DEF SetDownstreamRefresh, At, SafeInv, FastInPause, EngineTypeOK
  <2>5. Ordered'
    BY <1>14
    DEF SetDownstreamRefresh, At, SafeInv, Ordered, VertexTypeOK, GraphTypeOK,
        WorkerStates
  <2>6. QED
    BY <2>1, <2>2, <2>3, <2>4, <2>5 DEF SafeInv
<1>15. CASE UpdateTimestamp(v)
  <2>1. VertexTypeOK'
    BY <1>15
    DEF UpdateTimestamp, At, Compared, OutgoingGraphVertices, SafeInv,
        VertexTypeOK, WorkerStates
  <2>2. GraphTypeOK'
    BY <1>15
    DEF UpdateTimestamp, At, Compared, OutgoingGraphVertices, SafeInv,
        GraphTypeOK
  <2>3. EngineTypeOK'
    BY <1>15
    DEF UpdateTimestamp, At, Compared, OutgoingGraphVertices, SafeInv,
        EngineTypeOK
  <2>4. FastInPause'
    BY <1>15
    DEF UpdateTimestamp, At, Compared, OutgoingGraphVertices, SafeInv,
        FastInPause, EngineTypeOK
  <2>5. Ordered'
    BY <1>15
    DEF UpdateTimestamp, At, Compared, OutgoingGraphVertices, SafeInv,
        Ordered, VertexTypeOK, GraphTypeOK, WorkerStates
  <2>6. QED
    BY <2>1, <2>2, <2>3, <2>4, <2>5 DEF SafeInv
<1>16. CASE Poke(v)
  <2>1. VertexTypeOK'
    BY <1>16
    DEF Poke, Pokes, OKTimestamp, BadTimestamps, SafeInv, VertexTypeOK,
        WorkerStates
  <2>2. GraphTypeOK'
    BY <1>16 DEF Poke, Pokes, OKTimestamp, BadTimestamps, SafeInv, GraphTypeOK
  <2>3. EngineTypeOK'
    BY <1>16
    DEF Poke, Pokes, OKTimestamp, BadTimestamps, SafeInv, EngineTypeOK
  <2>4. FastInPause'
    BY <1>16
    DEF Poke, Pokes, OKTimestamp, BadTimestamps, SafeInv, FastInPause,
        EngineTypeOK
  <2>5. Ordered'
    BY <1>16
    DEF Poke, Pokes, OKTimestamp, BadTimestamps, SafeInv, Ordered,
        VertexTypeOK, GraphTypeOK, WorkerStates
  <2>6. QED
    BY <2>1, <2>2, <2>3, <2>4, <2>5 DEF SafeInv
<1>17. CASE ProcessReturns(v)
  <2>1. VertexTypeOK'
    BY <1>17 DEF ProcessReturns, SafeInv, VertexTypeOK, WorkerStates
  <2>2. GraphTypeOK'
    BY <1>17 DEF ProcessReturns, SafeInv, GraphTypeOK
  <2>3. EngineTypeOK'
    BY <1>17 DEF ProcessReturns, SafeInv, EngineTypeOK
  <2>4. FastInPause'
    BY <1>17 DEF ProcessReturns, SafeInv, FastInPause, EngineTypeOK
  <2>5. Ordered'
    BY <1>17
    DEF ProcessReturns, SafeInv, Ordered, VertexTypeOK, GraphTypeOK,
        WorkerStates
  <2>6. QED
    BY <2>1, <2>2, <2>3, <2>4, <2>5 DEF SafeInv
<1>18. CASE PauseVertex(v)
  <2>1. VertexTypeOK'
    BY <1>18 DEF PauseVertex, PausePoint, SafeInv, VertexTypeOK, WorkerStates
  <2>2. GraphTypeOK'
    BY <1>18 DEF PauseVertex, PausePoint, SafeInv, GraphTypeOK
  <2>3. EngineTypeOK'
    BY <1>18 DEF PauseVertex, PausePoint, SafeInv, EngineTypeOK
  <2>4. FastInPause'
    BY <1>18 DEF PauseVertex, PausePoint, SafeInv, FastInPause, EngineTypeOK
  <2>5. Ordered'
    BY <1>18
    DEF PauseVertex, PausePoint, SafeInv, Ordered, VertexTypeOK, GraphTypeOK,
        WorkerStates
  <2>6. QED
    BY <2>1, <2>2, <2>3, <2>4, <2>5 DEF SafeInv
<1>19. CASE ResumeVertex(v)
  <2>1. VertexTypeOK'
    BY <1>19 DEF ResumeVertex, Resumes, SafeInv, VertexTypeOK, WorkerStates
  <2>2. GraphTypeOK'
    BY <1>19 DEF ResumeVertex, Resumes, SafeInv, GraphTypeOK
  <2>3. EngineTypeOK'
    BY <1>19 DEF ResumeVertex, Resumes, SafeInv, EngineTypeOK
  <2>4. FastInPause'
    BY <1>19 DEF ResumeVertex, Resumes, SafeInv, FastInPause, EngineTypeOK
  <2>5. Ordered'
    BY <1>19
    DEF ResumeVertex, Resumes, SafeInv, Ordered, VertexTypeOK, GraphTypeOK,
        WorkerStates
  <2>6. QED
    BY <2>1, <2>2, <2>3, <2>4, <2>5 DEF SafeInv
<1>20. QED
  BY <1>1, <1>2, <1>3, <1>4, <1>5, <1>6, <1>7, <1>8, <1>9, <1>10, <1>11,
     <1>12, <1>13, <1>14, <1>15, <1>16, <1>17, <1>18, <1>19
  DEF VertexStep, LoopNext, ProcessNext

\* Pausing and resuming the engine preserves types and order
LEMMA SafeEngineStep ==
    ASSUME SafeInv, EngineStep
    PROVE  SafeInv'
<1> USE EdgeAssumption, BoundAssumption, FlagAssumption
<1>1. CASE Pause
  <2>1. VertexTypeOK'
    BY <1>1 DEF Pause, SafeInv, VertexTypeOK, WorkerStates
  <2>2. GraphTypeOK'
    BY <1>1 DEF Pause, SafeInv, GraphTypeOK
  <2>3. EngineTypeOK'
    BY <1>1 DEF Pause, SafeInv, EngineTypeOK
  <2>4. FastInPause'
    BY <1>1 DEF Pause, SafeInv, FastInPause, EngineTypeOK
  <2>5. Ordered'
    BY <1>1
    DEF Pause, SafeInv, Ordered, VertexTypeOK, GraphTypeOK, WorkerStates
  <2>6. QED
    BY <2>1, <2>2, <2>3, <2>4, <2>5 DEF SafeInv
<1>2. CASE Paused
  <2>1. VertexTypeOK'
    BY <1>2 DEF Paused, SafeInv, VertexTypeOK, WorkerStates
  <2>2. GraphTypeOK'
    BY <1>2 DEF Paused, SafeInv, GraphTypeOK
  <2>3. EngineTypeOK'
    BY <1>2 DEF Paused, SafeInv, EngineTypeOK
  <2>4. FastInPause'
    BY <1>2 DEF Paused, SafeInv, FastInPause, EngineTypeOK
  <2>5. Ordered'
    BY <1>2
    DEF Paused, SafeInv, Ordered, VertexTypeOK, GraphTypeOK, WorkerStates
  <2>6. QED
    BY <2>1, <2>2, <2>3, <2>4, <2>5 DEF SafeInv
<1>3. CASE Resumed
  <2>1. VertexTypeOK'
    BY <1>3 DEF Resumed, SafeInv, VertexTypeOK, WorkerStates
  <2>2. GraphTypeOK'
    BY <1>3 DEF Resumed, SafeInv, GraphTypeOK
  <2>3. EngineTypeOK'
    BY <1>3 DEF Resumed, SafeInv, EngineTypeOK
  <2>4. FastInPause'
    BY <1>3 DEF Resumed, SafeInv, FastInPause, EngineTypeOK
  <2>5. Ordered'
    BY <1>3
    DEF Resumed, SafeInv, Ordered, VertexTypeOK, GraphTypeOK, WorkerStates
  <2>6. QED
    BY <2>1, <2>2, <2>3, <2>4, <2>5 DEF SafeInv
<1>4. QED
  BY <1>1, <1>2, <1>3 DEF EngineStep

\* What a vertex does forgets no work, if the clock goes forward
LEMMA WorkVertexStep ==
    ASSUME WallClock = FALSE, NEW v \in Vertex, SafeInv, SafeInv', WorkInv, VertexStep(v)
    PROVE  WorkInv'
<1> USE EdgeAssumption, BoundAssumption, FlagAssumption
<1>1. CASE Event(v)
  <2>1. PrerequisitesNewer'
    BY <1>1
    DEF Event, WorkInv, SafeInv, PrerequisitesNewer, VertexTypeOK, GraphTypeOK
  <2>2. PauseOrder'
    BY <1>1
    DEF Event, WorkInv, SafeInv, PauseOrder, VertexTypeOK, EngineTypeOK
  <2>3. Starting'
    BY <1>1 DEF Event, WorkInv, SafeInv, Starting, VertexTypeOK, PauseOrder
  <2>4. Clean'
    BY <1>1 DEF Event, WorkInv, SafeInv, Clean, VertexTypeOK, Starting
  <2>5. Phases'
    BY <1>1
    DEF Event, WorkInv, SafeInv, Phases, VertexTypeOK, GraphTypeOK, Starting
  <2>6. Behind'
    BY <1>1
    DEF Event, WorkInv, SafeInv, Behind, VertexTypeOK, GraphTypeOK, Starting,
        Busy, Phases
  <2>7. Wakes'
    <3> SUFFICES ASSUME NEW u \in Vertex, Waiting(u)' PROVE Woken(u)'
      BY DEF Wakes
    <3>1. Woken(u)
      BY <1>1 DEF Event, WorkInv, Wakes
    <3>2. poked[u] \/ event[u] => poked'[u] \/ event'[u]
      BY <1>1 DEF Event, SafeInv, VertexTypeOK
    <3>3. QED
      BY <1>1, <3>1, <3>2, StaysWoken DEF Event
  <2>8. QED
    BY <2>1, <2>2, <2>3, <2>4, <2>5, <2>6, <2>7 DEF WorkInv
<1>2. CASE RecvEvent(v)
  <2>1. PrerequisitesNewer'
    BY <1>2
    DEF RecvEvent, At, WorkInv, SafeInv, PrerequisitesNewer, VertexTypeOK,
        GraphTypeOK
  <2>2. PauseOrder'
    BY <1>2
    DEF RecvEvent, At, WorkInv, SafeInv, PauseOrder, VertexTypeOK,
        EngineTypeOK
  <2>3. Starting'
    BY <1>2
    DEF RecvEvent, At, WorkInv, SafeInv, Starting, VertexTypeOK, PauseOrder
  <2>4. Clean'
    BY <1>2 DEF RecvEvent, At, WorkInv, SafeInv, Clean, VertexTypeOK, Starting
  <2>5. Phases'
    BY <1>2
    DEF RecvEvent, At, WorkInv, SafeInv, Phases, VertexTypeOK, GraphTypeOK,
        Starting
  <2>6. Behind'
    BY <1>2
    DEF RecvEvent, At, WorkInv, SafeInv, Behind, VertexTypeOK, GraphTypeOK,
        Starting, Busy, Phases
  <2>7. Wakes'
    <3> SUFFICES ASSUME NEW u \in Vertex, Waiting(u)' PROVE Woken(u)'
      BY DEF Wakes
    <3>1. u # v
      BY <1>2 DEF RecvEvent, At, SafeInv, VertexTypeOK, WorkInv, Starting
    <3>2. Woken(u)
      BY <1>2, <3>1 DEF RecvEvent, At, WorkInv, Wakes, SafeInv, VertexTypeOK
    <3>3. poked[u] \/ event[u] => poked'[u] \/ event'[u]
      BY <1>2, <3>1 DEF RecvEvent, At, SafeInv, VertexTypeOK, WorkInv, Starting
    <3>4. \A p \in Vertex : worker[p] = "poke" =>
              worker'[p] = "poke" /\ todo'[p] = todo[p]
      BY <1>2 DEF RecvEvent, At, SafeInv, VertexTypeOK, WorkInv, Starting
    <3>5. QED
      BY <1>2, <3>2, <3>3, <3>4, StaysWoken DEF RecvEvent, At
  <2>8. QED
    BY <2>1, <2>2, <2>3, <2>4, <2>5, <2>6, <2>7 DEF WorkInv
<1>3. CASE RecvPoke(v)
  <2>1. PrerequisitesNewer'
    BY <1>3
    DEF RecvPoke, At, WorkInv, SafeInv, PrerequisitesNewer, VertexTypeOK,
        GraphTypeOK
  <2>2. PauseOrder'
    BY <1>3
    DEF RecvPoke, At, WorkInv, SafeInv, PauseOrder, VertexTypeOK, EngineTypeOK
  <2>3. Starting'
    BY <1>3
    DEF RecvPoke, At, WorkInv, SafeInv, Starting, VertexTypeOK, PauseOrder
  <2>4. Clean'
    BY <1>3 DEF RecvPoke, At, WorkInv, SafeInv, Clean, VertexTypeOK, Starting
  <2>5. Phases'
    BY <1>3
    DEF RecvPoke, At, WorkInv, SafeInv, Phases, VertexTypeOK, GraphTypeOK,
        Starting
  <2>6. Behind'
    BY <1>3
    DEF RecvPoke, At, WorkInv, SafeInv, Behind, VertexTypeOK, GraphTypeOK,
        Starting, Busy, Phases
  <2>7. Wakes'
    <3> SUFFICES ASSUME NEW u \in Vertex, Waiting(u)' PROVE Woken(u)'
      BY DEF Wakes
    <3>1. u # v
      BY <1>3 DEF RecvPoke, At, SafeInv, VertexTypeOK, WorkInv, Starting
    <3>2. Woken(u)
      BY <1>3, <3>1 DEF RecvPoke, At, WorkInv, Wakes, SafeInv, VertexTypeOK
    <3>3. poked[u] \/ event[u] => poked'[u] \/ event'[u]
      BY <1>3, <3>1 DEF RecvPoke, At, SafeInv, VertexTypeOK, WorkInv, Starting
    <3>4. \A p \in Vertex : worker[p] = "poke" =>
              worker'[p] = "poke" /\ todo'[p] = todo[p]
      BY <1>3 DEF RecvPoke, At, SafeInv, VertexTypeOK, WorkInv, Starting
    <3>5. QED
      BY <1>3, <3>2, <3>3, <3>4, StaysWoken DEF RecvPoke, At
  <2>8. QED
    BY <2>1, <2>2, <2>3, <2>4, <2>5, <2>6, <2>7 DEF WorkInv
<1>4. CASE RecvEventInRetry(v)
  <2>1. PrerequisitesNewer'
    BY <1>4
    DEF RecvEventInRetry, WorkInv, SafeInv, PrerequisitesNewer, VertexTypeOK,
        GraphTypeOK
  <2>2. PauseOrder'
    BY <1>4
    DEF RecvEventInRetry, WorkInv, SafeInv, PauseOrder, VertexTypeOK,
        EngineTypeOK
  <2>3. Starting'
    BY <1>4
    DEF RecvEventInRetry, WorkInv, SafeInv, Starting, VertexTypeOK, PauseOrder
  <2>4. Clean'
    BY <1>4
    DEF RecvEventInRetry, WorkInv, SafeInv, Clean, VertexTypeOK, Starting
  <2>5. Phases'
    BY <1>4
    DEF RecvEventInRetry, WorkInv, SafeInv, Phases, VertexTypeOK, GraphTypeOK,
        Starting
  <2>6. Behind'
    BY <1>4
    DEF RecvEventInRetry, WorkInv, SafeInv, Behind, VertexTypeOK, GraphTypeOK,
        Starting, Busy, Phases
  <2>7. Wakes'
    <3> SUFFICES ASSUME NEW u \in Vertex, Waiting(u)' PROVE Woken(u)'
      BY DEF Wakes
    <3>1. Woken(u)
      BY <1>4 DEF RecvEventInRetry, WorkInv, Wakes
    <3>2. poked[u] \/ event[u] => poked'[u] \/ event'[u]
      BY <1>4 DEF RecvEventInRetry, SafeInv, VertexTypeOK
    <3>3. QED
      BY <1>4, <3>1, <3>2, StaysWoken DEF RecvEventInRetry
  <2>8. QED
    BY <2>1, <2>2, <2>3, <2>4, <2>5, <2>6, <2>7 DEF WorkInv
<1>5. CASE Retry(v)
  <2>1. PrerequisitesNewer'
    BY <1>5
    DEF Retry, At, WorkInv, SafeInv, PrerequisitesNewer, VertexTypeOK,
        GraphTypeOK
  <2>2. PauseOrder'
    BY <1>5
    DEF Retry, At, WorkInv, SafeInv, PauseOrder, VertexTypeOK, EngineTypeOK
  <2>3. Starting'
    BY <1>5
    DEF Retry, At, WorkInv, SafeInv, Starting, VertexTypeOK, PauseOrder
  <2>4. Clean'
    BY <1>5 DEF Retry, At, WorkInv, SafeInv, Clean, VertexTypeOK, Starting
  <2>5. Phases'
    BY <1>5
    DEF Retry, At, WorkInv, SafeInv, Phases, VertexTypeOK, GraphTypeOK,
        Starting
  <2>6. Behind'
    BY <1>5
    DEF Retry, At, WorkInv, SafeInv, Behind, VertexTypeOK, GraphTypeOK,
        Starting, Busy, Phases
  <2>7. Wakes'
    <3> SUFFICES ASSUME NEW u \in Vertex, Waiting(u)' PROVE Woken(u)'
      BY DEF Wakes
    <3>1. u # v
      BY <1>5 DEF Retry, At, SafeInv, VertexTypeOK, WorkInv, Starting
    <3>2. Woken(u)
      BY <1>5, <3>1 DEF Retry, At, WorkInv, Wakes, SafeInv, VertexTypeOK
    <3>3. poked[u] \/ event[u] => poked'[u] \/ event'[u]
      BY <1>5, <3>1 DEF Retry, At, SafeInv, VertexTypeOK, WorkInv, Starting
    <3>4. \A p \in Vertex : worker[p] = "poke" =>
              worker'[p] = "poke" /\ todo'[p] = todo[p]
      BY <1>5 DEF Retry, At, SafeInv, VertexTypeOK, WorkInv, Starting
    <3>5. QED
      BY <1>5, <3>2, <3>3, <3>4, StaysWoken DEF Retry, At
  <2>8. QED
    BY <2>1, <2>2, <2>3, <2>4, <2>5, <2>6, <2>7 DEF WorkInv
<1>6. CASE Postpone(v)
  <2>1. PrerequisitesNewer'
    BY <1>6
    DEF Postpone, At, OKTimestamp, BadTimestamps, IncomingGraphVertices,
        WorkInv, SafeInv, PrerequisitesNewer, VertexTypeOK, GraphTypeOK
  <2>2. PauseOrder'
    BY <1>6
    DEF Postpone, At, OKTimestamp, BadTimestamps, IncomingGraphVertices,
        WorkInv, SafeInv, PauseOrder, VertexTypeOK, EngineTypeOK
  <2>3. Starting'
    BY <1>6
    DEF Postpone, At, OKTimestamp, BadTimestamps, IncomingGraphVertices,
        WorkInv, SafeInv, Starting, VertexTypeOK, PauseOrder
  <2>4. Clean'
    BY <1>6
    DEF Postpone, At, OKTimestamp, BadTimestamps, IncomingGraphVertices,
        WorkInv, SafeInv, Clean, VertexTypeOK, Starting
  <2>5. Phases'
    BY <1>6
    DEF Postpone, At, OKTimestamp, BadTimestamps, IncomingGraphVertices,
        WorkInv, SafeInv, Phases, VertexTypeOK, GraphTypeOK, Starting
  <2>6. Behind'
    BY <1>6
    DEF Postpone, At, OKTimestamp, BadTimestamps, IncomingGraphVertices,
        WorkInv, SafeInv, Behind, VertexTypeOK, GraphTypeOK, Starting, Busy,
        Phases
  <2>7. Wakes'
    <3> SUFFICES ASSUME NEW u \in Vertex, Waiting(u)' PROVE Woken(u)'
      BY DEF Wakes
    <3>1. CASE u = v
      BY <1>6, <3>1 DEF Postpone, OKTimestamp, BadTimestamps, Woken
    <3>2. CASE u # v
      <4>1. Woken(u)
        BY <1>6, <3>2 DEF Postpone, At, WorkInv, Wakes, SafeInv, VertexTypeOK
      <4>2. \A p \in Vertex : worker[p] = "poke" =>
                worker'[p] = "poke" /\ todo'[p] = todo[p]
        BY <1>6 DEF Postpone, At, SafeInv, VertexTypeOK
      <4>3. QED
        BY <1>6, <4>1, <4>2, StaysWoken DEF Postpone
    <3>3. QED
      BY <3>1, <3>2
  <2>8. QED
    BY <2>1, <2>2, <2>3, <2>4, <2>5, <2>6, <2>7 DEF WorkInv
<1>7. CASE BackPoke(v)
  <2>1. PrerequisitesNewer'
    BY <1>7
    DEF BackPoke, WorkInv, SafeInv, PrerequisitesNewer, VertexTypeOK,
        GraphTypeOK
  <2>2. PauseOrder'
    BY <1>7
    DEF BackPoke, WorkInv, SafeInv, PauseOrder, VertexTypeOK, EngineTypeOK
  <2>3. Starting'
    BY <1>7 DEF BackPoke, WorkInv, SafeInv, Starting, VertexTypeOK, PauseOrder
  <2>4. Clean'
    BY <1>7 DEF BackPoke, WorkInv, SafeInv, Clean, VertexTypeOK, Starting
  <2>5. Phases'
    BY <1>7
    DEF BackPoke, WorkInv, SafeInv, Phases, VertexTypeOK, GraphTypeOK,
        Starting
  <2>6. Behind'
    BY <1>7
    DEF BackPoke, WorkInv, SafeInv, Behind, VertexTypeOK, GraphTypeOK,
        Starting, Busy, Phases
  <2>7. Wakes'
    <3> SUFFICES ASSUME NEW u \in Vertex, Waiting(u)' PROVE Woken(u)'
      BY DEF Wakes
    <3>1. Woken(u)
      BY <1>7 DEF BackPoke, WorkInv, Wakes
    <3>2. poked[u] \/ event[u] => poked'[u] \/ event'[u]
      BY <1>7 DEF BackPoke, SafeInv, VertexTypeOK
    <3>3. \A p \in Vertex : worker[p] = "poke" =>
              worker'[p] = "poke" /\ todo'[p] = todo[p]
      BY <1>7 DEF BackPoke, SafeInv, VertexTypeOK
    <3>4. QED
      BY <1>7, <3>1, <3>2, <3>3, StaysWoken DEF BackPoke
  <2>8. QED
    BY <2>1, <2>2, <2>3, <2>4, <2>5, <2>6, <2>7 DEF WorkInv
<1>8. CASE GoAhead(v)
  <2>1. PrerequisitesNewer'
    BY <1>8
    DEF GoAhead, At, OKTimestamp, BadTimestamps, IncomingGraphVertices,
        WorkInv, SafeInv, PrerequisitesNewer, VertexTypeOK, GraphTypeOK
  <2>2. PauseOrder'
    BY <1>8
    DEF GoAhead, At, OKTimestamp, BadTimestamps, IncomingGraphVertices,
        WorkInv, SafeInv, PauseOrder, VertexTypeOK, EngineTypeOK
  <2>3. Starting'
    BY <1>8
    DEF GoAhead, At, OKTimestamp, BadTimestamps, IncomingGraphVertices,
        WorkInv, SafeInv, Starting, VertexTypeOK, PauseOrder
  <2>4. Clean'
    BY <1>8
    DEF GoAhead, At, OKTimestamp, BadTimestamps, IncomingGraphVertices,
        WorkInv, SafeInv, Clean, VertexTypeOK, Starting
  <2>5. Phases'
    BY <1>8
    DEF GoAhead, At, OKTimestamp, BadTimestamps, IncomingGraphVertices,
        WorkInv, SafeInv, Phases, VertexTypeOK, GraphTypeOK, Starting
  <2>6. Behind'
    BY <1>8
    DEF GoAhead, At, OKTimestamp, BadTimestamps, IncomingGraphVertices,
        WorkInv, SafeInv, Behind, VertexTypeOK, GraphTypeOK, Starting, Busy,
        Phases
  <2>7. Wakes'
    <3> SUFFICES ASSUME NEW u \in Vertex, Waiting(u)' PROVE Woken(u)'
      BY DEF Wakes
    <3>1. u # v
      BY <1>8 DEF GoAhead, At, SafeInv, VertexTypeOK, WorkInv, Starting
    <3>2. Woken(u)
      BY <1>8, <3>1 DEF GoAhead, At, WorkInv, Wakes, SafeInv, VertexTypeOK
    <3>3. poked[u] \/ event[u] => poked'[u] \/ event'[u]
      BY <1>8, <3>1 DEF GoAhead, At, SafeInv, VertexTypeOK, WorkInv, Starting
    <3>4. \A p \in Vertex : worker[p] = "poke" =>
              worker'[p] = "poke" /\ todo'[p] = todo[p]
      BY <1>8 DEF GoAhead, At, SafeInv, VertexTypeOK, WorkInv, Starting
    <3>5. QED
      BY <1>8, <3>2, <3>3, <3>4, StaysWoken DEF GoAhead, At
  <2>8. QED
    BY <2>1, <2>2, <2>3, <2>4, <2>5, <2>6, <2>7 DEF WorkInv
<1>9. CASE RefreshPending(v)
  <2>1. PrerequisitesNewer'
    BY <1>9
    DEF RefreshPending, At, WorkInv, SafeInv, PrerequisitesNewer,
        VertexTypeOK, GraphTypeOK
  <2>2. PauseOrder'
    BY <1>9
    DEF RefreshPending, At, WorkInv, SafeInv, PauseOrder, VertexTypeOK,
        EngineTypeOK
  <2>3. Starting'
    BY <1>9
    DEF RefreshPending, At, WorkInv, SafeInv, Starting, VertexTypeOK,
        PauseOrder
  <2>4. Clean'
    BY <1>9
    DEF RefreshPending, At, WorkInv, SafeInv, Clean, VertexTypeOK, Starting
  <2>5. Phases'
    BY <1>9
    DEF RefreshPending, At, WorkInv, SafeInv, Phases, VertexTypeOK,
        GraphTypeOK, Starting
  <2>6. Behind'
    BY <1>9
    DEF RefreshPending, At, WorkInv, SafeInv, Behind, VertexTypeOK,
        GraphTypeOK, Starting, Busy, Phases
  <2>7. Wakes'
    <3> SUFFICES ASSUME NEW u \in Vertex, Waiting(u)' PROVE Woken(u)'
      BY DEF Wakes
    <3>1. u # v
      BY <1>9 DEF RefreshPending, At, SafeInv, VertexTypeOK, WorkInv, Starting
    <3>2. Woken(u)
      BY <1>9, <3>1 DEF RefreshPending, At, WorkInv, Wakes, SafeInv, VertexTypeOK
    <3>3. poked[u] \/ event[u] => poked'[u] \/ event'[u]
      BY <1>9, <3>1 DEF RefreshPending, At, SafeInv, VertexTypeOK, WorkInv, Starting
    <3>4. \A p \in Vertex : worker[p] = "poke" =>
              worker'[p] = "poke" /\ todo'[p] = todo[p]
      BY <1>9 DEF RefreshPending, At, SafeInv, VertexTypeOK, WorkInv, Starting
    <3>5. QED
      BY <1>9, <3>2, <3>3, <3>4, StaysWoken DEF RefreshPending, At
  <2>8. QED
    BY <2>1, <2>2, <2>3, <2>4, <2>5, <2>6, <2>7 DEF WorkInv
<1>10. CASE Skip(v)
  <2>1. PrerequisitesNewer'
    BY <1>10
    DEF Skip, At, WorkInv, SafeInv, PrerequisitesNewer, VertexTypeOK,
        GraphTypeOK
  <2>2. PauseOrder'
    BY <1>10
    DEF Skip, At, WorkInv, SafeInv, PauseOrder, VertexTypeOK, EngineTypeOK
  <2>3. Starting'
    BY <1>10
    DEF Skip, At, WorkInv, SafeInv, Starting, VertexTypeOK, PauseOrder
  <2>4. Clean'
    BY <1>10 DEF Skip, At, WorkInv, SafeInv, Clean, VertexTypeOK, Starting
  <2>5. Phases'
    BY <1>10
    DEF Skip, At, WorkInv, SafeInv, Phases, VertexTypeOK, GraphTypeOK,
        Starting
  <2>6. Behind'
    BY <1>10
    DEF Skip, At, WorkInv, SafeInv, Behind, VertexTypeOK, GraphTypeOK,
        Starting, Busy, Phases
  <2>7. Wakes'
    <3> SUFFICES ASSUME NEW u \in Vertex, Waiting(u)' PROVE Woken(u)'
      BY DEF Wakes
    <3>1. u # v
      BY <1>10 DEF Skip, At, SafeInv, VertexTypeOK, WorkInv, Starting
    <3>2. Woken(u)
      BY <1>10, <3>1 DEF Skip, At, WorkInv, Wakes, SafeInv, VertexTypeOK
    <3>3. poked[u] \/ event[u] => poked'[u] \/ event'[u]
      BY <1>10, <3>1 DEF Skip, At, SafeInv, VertexTypeOK, WorkInv, Starting
    <3>4. \A p \in Vertex : worker[p] = "poke" =>
              worker'[p] = "poke" /\ todo'[p] = todo[p]
      BY <1>10 DEF Skip, At, SafeInv, VertexTypeOK, WorkInv, Starting
    <3>5. QED
      BY <1>10, <3>2, <3>3, <3>4, StaysWoken DEF Skip, At
  <2>8. QED
    BY <2>1, <2>2, <2>3, <2>4, <2>5, <2>6, <2>7 DEF WorkInv
<1>11. CASE CheckApply(v)
  <2>1. PrerequisitesNewer'
    BY <1>11
    DEF CheckApply, At, WorkInv, SafeInv, PrerequisitesNewer, VertexTypeOK,
        GraphTypeOK
  <2>2. PauseOrder'
    BY <1>11
    DEF CheckApply, At, WorkInv, SafeInv, PauseOrder, VertexTypeOK,
        EngineTypeOK
  <2>3. Starting'
    BY <1>11
    DEF CheckApply, At, WorkInv, SafeInv, Starting, VertexTypeOK, PauseOrder
  <2>4. Clean'
    BY <1>11
    DEF CheckApply, At, WorkInv, SafeInv, Clean, VertexTypeOK, Starting
  <2>5. Phases'
    BY <1>11
    DEF CheckApply, At, WorkInv, SafeInv, Phases, VertexTypeOK, GraphTypeOK,
        Starting
  <2>6. Behind'
    BY <1>11
    DEF CheckApply, At, WorkInv, SafeInv, Behind, VertexTypeOK, GraphTypeOK,
        Starting, Busy, Phases
  <2>7. Wakes'
    <3> SUFFICES ASSUME NEW u \in Vertex, Waiting(u)' PROVE Woken(u)'
      BY DEF Wakes
    <3>1. u # v
      BY <1>11 DEF CheckApply, At, SafeInv, VertexTypeOK, WorkInv, Starting
    <3>2. Woken(u)
      BY <1>11, <3>1 DEF CheckApply, At, WorkInv, Wakes, SafeInv, VertexTypeOK
    <3>3. poked[u] \/ event[u] => poked'[u] \/ event'[u]
      BY <1>11, <3>1 DEF CheckApply, At, SafeInv, VertexTypeOK, WorkInv, Starting
    <3>4. \A p \in Vertex : worker[p] = "poke" =>
              worker'[p] = "poke" /\ todo'[p] = todo[p]
      BY <1>11 DEF CheckApply, At, SafeInv, VertexTypeOK, WorkInv, Starting
    <3>5. QED
      BY <1>11, <3>2, <3>3, <3>4, StaysWoken DEF CheckApply, At
  <2>8. QED
    BY <2>1, <2>2, <2>3, <2>4, <2>5, <2>6, <2>7 DEF WorkInv
<1>12. CASE CheckApplyError(v)
  <2>1. PrerequisitesNewer'
    BY <1>12
    DEF CheckApplyError, At, WorkInv, SafeInv, PrerequisitesNewer,
        VertexTypeOK, GraphTypeOK
  <2>2. PauseOrder'
    BY <1>12
    DEF CheckApplyError, At, WorkInv, SafeInv, PauseOrder, VertexTypeOK,
        EngineTypeOK
  <2>3. Starting'
    BY <1>12
    DEF CheckApplyError, At, WorkInv, SafeInv, Starting, VertexTypeOK,
        PauseOrder
  <2>4. Clean'
    BY <1>12
    DEF CheckApplyError, At, WorkInv, SafeInv, Clean, VertexTypeOK, Starting
  <2>5. Phases'
    BY <1>12
    DEF CheckApplyError, At, WorkInv, SafeInv, Phases, VertexTypeOK,
        GraphTypeOK, Starting
  <2>6. Behind'
    BY <1>12
    DEF CheckApplyError, At, WorkInv, SafeInv, Behind, VertexTypeOK,
        GraphTypeOK, Starting, Busy, Phases
  <2>7. Wakes'
    <3> SUFFICES ASSUME NEW u \in Vertex, Waiting(u)' PROVE Woken(u)'
      BY DEF Wakes
    <3>1. u # v
      BY <1>12 DEF CheckApplyError, At, SafeInv, VertexTypeOK, WorkInv, Starting
    <3>2. Woken(u)
      BY <1>12, <3>1 DEF CheckApplyError, At, WorkInv, Wakes, SafeInv, VertexTypeOK
    <3>3. poked[u] \/ event[u] => poked'[u] \/ event'[u]
      BY <1>12, <3>1 DEF CheckApplyError, At, SafeInv, VertexTypeOK, WorkInv, Starting
    <3>4. \A p \in Vertex : worker[p] = "poke" =>
              worker'[p] = "poke" /\ todo'[p] = todo[p]
      BY <1>12 DEF CheckApplyError, At, SafeInv, VertexTypeOK, WorkInv, Starting
    <3>5. QED
      BY <1>12, <3>2, <3>3, <3>4, StaysWoken DEF CheckApplyError, At
  <2>8. QED
    BY <2>1, <2>2, <2>3, <2>4, <2>5, <2>6, <2>7 DEF WorkInv
<1>13. CASE Store(v)
  <2>1. PrerequisitesNewer'
    BY <1>13
    DEF Store, At, WorkInv, SafeInv, PrerequisitesNewer, VertexTypeOK,
        GraphTypeOK
  <2>2. PauseOrder'
    BY <1>13
    DEF Store, At, WorkInv, SafeInv, PauseOrder, VertexTypeOK, EngineTypeOK
  <2>3. Starting'
    BY <1>13
    DEF Store, At, WorkInv, SafeInv, Starting, VertexTypeOK, PauseOrder
  <2>4. Clean'
    BY <1>13 DEF Store, At, WorkInv, SafeInv, Clean, VertexTypeOK, Starting
  <2>5. Phases'
    BY <1>13
    DEF Store, At, WorkInv, SafeInv, Phases, VertexTypeOK, GraphTypeOK,
        Starting
  <2>6. Behind'
    BY <1>13
    DEF Store, At, WorkInv, SafeInv, Behind, VertexTypeOK, GraphTypeOK,
        Starting, Busy, Phases
  <2>7. Wakes'
    <3> SUFFICES ASSUME NEW u \in Vertex, Waiting(u)' PROVE Woken(u)'
      BY DEF Wakes
    <3>1. u # v
      BY <1>13 DEF Store, At, SafeInv, VertexTypeOK, WorkInv, Starting
    <3>2. Woken(u)
      BY <1>13, <3>1 DEF Store, At, WorkInv, Wakes, SafeInv, VertexTypeOK
    <3>3. poked[u] \/ event[u] => poked'[u] \/ event'[u]
      BY <1>13, <3>1 DEF Store, At, SafeInv, VertexTypeOK, WorkInv, Starting
    <3>4. \A p \in Vertex : worker[p] = "poke" =>
              worker'[p] = "poke" /\ todo'[p] = todo[p]
      BY <1>13 DEF Store, At, SafeInv, VertexTypeOK, WorkInv, Starting
    <3>5. QED
      BY <1>13, <3>2, <3>3, <3>4, StaysWoken DEF Store, At
  <2>8. QED
    BY <2>1, <2>2, <2>3, <2>4, <2>5, <2>6, <2>7 DEF WorkInv
<1>14. CASE SetDownstreamRefresh(v)
  <2>1. PrerequisitesNewer'
    BY <1>14
    DEF SetDownstreamRefresh, At, WorkInv, SafeInv, PrerequisitesNewer,
        VertexTypeOK, GraphTypeOK
  <2>2. PauseOrder'
    BY <1>14
    DEF SetDownstreamRefresh, At, WorkInv, SafeInv, PauseOrder, VertexTypeOK,
        EngineTypeOK
  <2>3. Starting'
    BY <1>14
    DEF SetDownstreamRefresh, At, WorkInv, SafeInv, Starting, VertexTypeOK,
        PauseOrder
  <2>4. Clean'
    BY <1>14
    DEF SetDownstreamRefresh, At, WorkInv, SafeInv, Clean, VertexTypeOK,
        Starting
  <2>5. Phases'
    BY <1>14
    DEF SetDownstreamRefresh, At, WorkInv, SafeInv, Phases, VertexTypeOK,
        GraphTypeOK, Starting
  <2>6. Behind'
    BY <1>14
    DEF SetDownstreamRefresh, At, WorkInv, SafeInv, Behind, VertexTypeOK,
        GraphTypeOK, Starting, Busy, Phases
  <2>7. Wakes'
    <3> SUFFICES ASSUME NEW u \in Vertex, Waiting(u)' PROVE Woken(u)'
      BY DEF Wakes
    <3>1. u # v
      BY <1>14 DEF SetDownstreamRefresh, At, SafeInv, VertexTypeOK, WorkInv, Starting
    <3>2. Woken(u)
      BY <1>14, <3>1 DEF SetDownstreamRefresh, At, WorkInv, Wakes, SafeInv, VertexTypeOK
    <3>3. poked[u] \/ event[u] => poked'[u] \/ event'[u]
      BY <1>14, <3>1 DEF SetDownstreamRefresh, At, SafeInv, VertexTypeOK, WorkInv, Starting
    <3>4. \A p \in Vertex : worker[p] = "poke" =>
              worker'[p] = "poke" /\ todo'[p] = todo[p]
      BY <1>14 DEF SetDownstreamRefresh, At, SafeInv, VertexTypeOK, WorkInv, Starting
    <3>5. QED
      BY <1>14, <3>2, <3>3, <3>4, StaysWoken DEF SetDownstreamRefresh, At
  <2>8. QED
    BY <2>1, <2>2, <2>3, <2>4, <2>5, <2>6, <2>7 DEF WorkInv
<1>15. CASE UpdateTimestamp(v)
  <2>1. PrerequisitesNewer'
    BY <1>15
    DEF UpdateTimestamp, At, Compared, OutgoingGraphVertices, WorkInv,
        SafeInv, PrerequisitesNewer, VertexTypeOK, GraphTypeOK
  <2>2. PauseOrder'
    BY <1>15
    DEF UpdateTimestamp, At, Compared, OutgoingGraphVertices, WorkInv,
        SafeInv, PauseOrder, VertexTypeOK, EngineTypeOK
  <2>3. Starting'
    BY <1>15
    DEF UpdateTimestamp, At, Compared, OutgoingGraphVertices, WorkInv,
        SafeInv, Starting, VertexTypeOK, PauseOrder
  <2>4. Clean'
    BY <1>15
    DEF UpdateTimestamp, At, Compared, OutgoingGraphVertices, WorkInv,
        SafeInv, Clean, VertexTypeOK, Starting
  <2>5. Phases'
    BY <1>15
    DEF UpdateTimestamp, At, Compared, OutgoingGraphVertices, WorkInv,
        SafeInv, Phases, VertexTypeOK, GraphTypeOK, Starting
  <2>6. Behind'
    BY <1>15
    DEF UpdateTimestamp, At, Compared, OutgoingGraphVertices, WorkInv,
        SafeInv, Behind, VertexTypeOK, GraphTypeOK, Starting, Busy, Phases
  <2>7. Wakes'
    <3> SUFFICES ASSUME NEW u \in Vertex, Waiting(u)' PROVE Woken(u)'
      BY DEF Wakes
    <3>0. fresh' = (fresh \cup Out(v)) \ In(v)
      BY <1>15 DEF UpdateTimestamp, Compared
    <3>1. u # v /\ Woken(u)
      BY <1>15 DEF UpdateTimestamp, At, WorkInv, Wakes, SafeInv, VertexTypeOK
    <3>2. CASE <<v, u>> \in Edge
      <4>1. worker'[v] = "poke" /\ u \in todo'[v]
        BY <1>15, <3>2
        DEF UpdateTimestamp, At, SafeInv, VertexTypeOK, OutgoingGraphVertices
      <4>2. QED
        BY <4>1 DEF Woken
    <3>3. CASE <<v, u>> \notin Edge
      <4>1. CASE \E p \in Vertex : <<p, u>> \in Edge \ fresh
        <5>1. PICK p \in Vertex : <<p, u>> \in Edge \ fresh
          BY <4>1
        <5>2. <<p, u>> \notin fresh'
          BY <3>0, <3>3, <5>1
        <5>3. QED
          BY <5>1, <5>2 DEF Woken
      <4>2. CASE \E p \in Vertex : worker[p] = "poke" /\ u \in todo[p]
        <5>1. PICK p \in Vertex : worker[p] = "poke" /\ u \in todo[p]
          BY <4>2
        <5>2. worker'[p] = "poke" /\ u \in todo'[p]
          BY <1>15, <5>1 DEF UpdateTimestamp, At, SafeInv, VertexTypeOK
        <5>3. QED
          BY <5>2 DEF Woken
      <4>3. CASE poked[u] \/ event[u] \/ (fastPause /\ u \in left)
        BY <1>15, <4>3 DEF UpdateTimestamp, Woken
      <4>4. QED
        BY <3>1, <4>1, <4>2, <4>3 DEF Woken
    <3>4. QED
      BY <3>2, <3>3
  <2>8. QED
    BY <2>1, <2>2, <2>3, <2>4, <2>5, <2>6, <2>7 DEF WorkInv
<1>16. CASE Poke(v)
  <2>1. PrerequisitesNewer'
    BY <1>16
    DEF Poke, Pokes, OKTimestamp, BadTimestamps, WorkInv, SafeInv,
        PrerequisitesNewer, VertexTypeOK, GraphTypeOK
  <2>2. PauseOrder'
    BY <1>16
    DEF Poke, Pokes, OKTimestamp, BadTimestamps, WorkInv, SafeInv, PauseOrder,
        VertexTypeOK, EngineTypeOK
  <2>3. Starting'
    BY <1>16
    DEF Poke, Pokes, OKTimestamp, BadTimestamps, WorkInv, SafeInv, Starting,
        VertexTypeOK, PauseOrder
  <2>4. Clean'
    BY <1>16
    DEF Poke, Pokes, OKTimestamp, BadTimestamps, WorkInv, SafeInv, Clean,
        VertexTypeOK, Starting
  <2>5. Phases'
    BY <1>16
    DEF Poke, Pokes, OKTimestamp, BadTimestamps, WorkInv, SafeInv, Phases,
        VertexTypeOK, GraphTypeOK, Starting
  <2>6. Behind'
    BY <1>16
    DEF Poke, Pokes, OKTimestamp, BadTimestamps, WorkInv, SafeInv, Behind,
        VertexTypeOK, GraphTypeOK, Starting, Busy, Phases
  <2>7. Wakes'
    <3> SUFFICES ASSUME NEW u \in Vertex, Waiting(u)' PROVE Woken(u)'
      BY DEF Wakes
    <3>1. Waiting(u) /\ Woken(u)
      BY <1>16 DEF Poke, WorkInv, Wakes
    <3>2. PICK w \in todo[v] : /\ poked' = [poked EXCEPT ![w] = @ \/ Pokes(w)]
                              /\ todo' = [todo EXCEPT ![v] = @ \ {w}]
      BY <1>16 DEF Poke
    <3>3. CASE u = w /\ Pokes(w)
      BY <3>2, <3>3 DEF SafeInv, VertexTypeOK, Woken
    <3>4. CASE u = w /\ ~OKTimestamp(w)
      BY <1>16, <3>4 DEF Poke, OKTimestamp, BadTimestamps, Woken
    <3>5. CASE u = w /\ fastPause
      <4>1. engine = "pausing" /\ u \in left
        BY <3>1, <3>5 DEF SafeInv, FastInPause, WorkInv, PauseOrder
      <4>2. QED
        BY <1>16, <3>5, <4>1 DEF Poke, Woken
    <3>6. CASE u # w
      <4>1. CASE \E p \in Vertex : worker[p] = "poke" /\ u \in todo[p]
        <5>1. PICK p \in Vertex : worker[p] = "poke" /\ u \in todo[p]
          BY <4>1
        <5>2. worker'[p] = "poke" /\ u \in todo'[p]
          BY <1>16, <3>2, <3>6, <5>1 DEF Poke, SafeInv, VertexTypeOK
        <5>3. QED
          BY <5>2 DEF Woken
      <4>2. CASE \E p \in Vertex : <<p, u>> \in Edge \ fresh
        BY <1>16, <4>2 DEF Poke, Woken
      <4>3. CASE poked[u] \/ event[u] \/ (fastPause /\ u \in left)
        BY <1>16, <3>2, <3>6, <4>3 DEF Poke, SafeInv, VertexTypeOK, Woken
      <4>4. QED
        BY <3>1, <4>1, <4>2, <4>3 DEF Woken
    <3>7. QED
      BY <3>3, <3>4, <3>5, <3>6 DEF Pokes
  <2>8. QED
    BY <2>1, <2>2, <2>3, <2>4, <2>5, <2>6, <2>7 DEF WorkInv
<1>17. CASE ProcessReturns(v)
  <2>1. PrerequisitesNewer'
    BY <1>17
    DEF ProcessReturns, WorkInv, SafeInv, PrerequisitesNewer, VertexTypeOK,
        GraphTypeOK
  <2>2. PauseOrder'
    BY <1>17
    DEF ProcessReturns, WorkInv, SafeInv, PauseOrder, VertexTypeOK,
        EngineTypeOK
  <2>3. Starting'
    BY <1>17
    DEF ProcessReturns, WorkInv, SafeInv, Starting, VertexTypeOK, PauseOrder
  <2>4. Clean'
    BY <1>17
    DEF ProcessReturns, WorkInv, SafeInv, Clean, VertexTypeOK, Starting
  <2>5. Phases'
    BY <1>17
    DEF ProcessReturns, WorkInv, SafeInv, Phases, VertexTypeOK, GraphTypeOK,
        Starting
  <2>6. Behind'
    BY <1>17
    DEF ProcessReturns, WorkInv, SafeInv, Behind, VertexTypeOK, GraphTypeOK,
        Starting, Busy, Phases
  <2>7. Wakes'
    <3> SUFFICES ASSUME NEW u \in Vertex, Waiting(u)' PROVE Woken(u)'
      BY DEF Wakes
    <3>1. Woken(u)
      BY <1>17 DEF ProcessReturns, WorkInv, Wakes, Phases, SafeInv, VertexTypeOK
    <3>2. CASE \E p \in Vertex : worker[p] = "poke" /\ u \in todo[p]
      <4>1. PICK p \in Vertex : worker[p] = "poke" /\ u \in todo[p]
        BY <3>2
      <4>2. worker'[p] = "poke" /\ u \in todo'[p]
        BY <1>17, <4>1 DEF ProcessReturns, SafeInv, VertexTypeOK
      <4>3. QED
        BY <4>2 DEF Woken
    <3>3. CASE \/ \E p \in Vertex : <<p, u>> \in Edge \ fresh
               \/ poked[u] \/ event[u] \/ (fastPause /\ u \in left)
      BY <1>17, <3>3 DEF ProcessReturns, Woken
    <3>4. QED
      BY <3>1, <3>2, <3>3 DEF Woken
  <2>8. QED
    BY <2>1, <2>2, <2>3, <2>4, <2>5, <2>6, <2>7 DEF WorkInv
<1>18. CASE PauseVertex(v)
  <2>1. PrerequisitesNewer'
    BY <1>18
    DEF PauseVertex, PausePoint, WorkInv, SafeInv, PrerequisitesNewer,
        VertexTypeOK, GraphTypeOK
  <2>2. PauseOrder'
    BY <1>18
    DEF PauseVertex, PausePoint, WorkInv, SafeInv, PauseOrder, VertexTypeOK,
        EngineTypeOK
  <2>3. Starting'
    BY <1>18
    DEF PauseVertex, PausePoint, WorkInv, SafeInv, Starting, VertexTypeOK,
        PauseOrder
  <2>4. Clean'
    BY <1>18
    DEF PauseVertex, PausePoint, WorkInv, SafeInv, Clean, VertexTypeOK,
        Starting
  <2>5. Phases'
    BY <1>18
    DEF PauseVertex, PausePoint, WorkInv, SafeInv, Phases, VertexTypeOK,
        GraphTypeOK, Starting
  <2>6. Behind'
    BY <1>18
    DEF PauseVertex, PausePoint, WorkInv, SafeInv, Behind, VertexTypeOK,
        GraphTypeOK, Starting, Busy, Phases
  <2>7. Wakes'
    <3> SUFFICES ASSUME NEW u \in Vertex, Waiting(u)' PROVE Woken(u)'
      BY DEF Wakes
    <3>1. u # v
      BY <1>18 DEF PauseVertex, PausePoint, SafeInv, VertexTypeOK
    <3>2. Woken(u)
      BY <1>18, <3>1 DEF PauseVertex, WorkInv, Wakes, SafeInv, VertexTypeOK
    <3>3. CASE \E p \in Vertex : worker[p] = "poke" /\ u \in todo[p]
      <4>1. PICK p \in Vertex : worker[p] = "poke" /\ u \in todo[p]
        BY <3>3
      <4>2. worker'[p] = "poke" /\ u \in todo'[p]
        BY <1>18, <4>1 DEF PauseVertex, PausePoint, SafeInv, VertexTypeOK
      <4>3. QED
        BY <4>2 DEF Woken
    <3>4. CASE \/ \E p \in Vertex : <<p, u>> \in Edge \ fresh
               \/ poked[u] \/ event[u] \/ (fastPause /\ u \in left)
      BY <1>18, <3>1, <3>4 DEF PauseVertex, Woken
    <3>5. QED
      BY <3>2, <3>3, <3>4 DEF Woken
  <2>8. QED
    BY <2>1, <2>2, <2>3, <2>4, <2>5, <2>6, <2>7 DEF WorkInv
<1>19. CASE ResumeVertex(v)
  <2>1. PrerequisitesNewer'
    BY <1>19
    DEF ResumeVertex, Resumes, WorkInv, SafeInv, PrerequisitesNewer,
        VertexTypeOK, GraphTypeOK
  <2>2. PauseOrder'
    BY <1>19
    DEF ResumeVertex, Resumes, WorkInv, SafeInv, PauseOrder, VertexTypeOK,
        EngineTypeOK
  <2>3. Starting'
    BY <1>19
    DEF ResumeVertex, Resumes, WorkInv, SafeInv, Starting, VertexTypeOK,
        PauseOrder
  <2>4. Clean'
    BY <1>19
    DEF ResumeVertex, Resumes, WorkInv, SafeInv, Clean, VertexTypeOK, Starting
  <2>5. Phases'
    BY <1>19
    DEF ResumeVertex, Resumes, WorkInv, SafeInv, Phases, VertexTypeOK,
        GraphTypeOK, Starting
  <2>6. Behind'
    BY <1>19
    DEF ResumeVertex, Resumes, WorkInv, SafeInv, Behind, VertexTypeOK,
        GraphTypeOK, Starting, Busy, Phases
  <2>7. Wakes'
    <3> SUFFICES ASSUME NEW u \in Vertex, Waiting(u)' PROVE Woken(u)'
      BY DEF Wakes
    <3>0. worker[v] \in AtRest /\ ~fastPause
      BY <1>19 DEF ResumeVertex, WorkInv, PauseOrder, SafeInv, FastInPause
    <3>1. u # v
      BY <1>19, <3>0 DEF ResumeVertex, Resumes, SafeInv, VertexTypeOK, WorkInv, Starting
    <3>2. Woken(u)
      BY <1>19, <3>1 DEF ResumeVertex, WorkInv, Wakes, SafeInv, VertexTypeOK
    <3>3. CASE \E p \in Vertex : worker[p] = "poke" /\ u \in todo[p]
      <4>1. PICK p \in Vertex : worker[p] = "poke" /\ u \in todo[p]
        BY <3>3
      <4>2. worker'[p] = "poke" /\ u \in todo'[p]
        BY <1>19, <3>0, <4>1 DEF ResumeVertex, SafeInv, VertexTypeOK
      <4>3. QED
        BY <4>2 DEF Woken
    <3>4. CASE (\E p \in Vertex : <<p, u>> \in Edge \ fresh) \/ poked[u] \/ event[u]
      BY <1>19, <3>1, <3>4 DEF ResumeVertex, SafeInv, VertexTypeOK, Woken
    <3>5. QED
      BY <3>0, <3>2, <3>3, <3>4 DEF Woken
  <2>8. QED
    BY <2>1, <2>2, <2>3, <2>4, <2>5, <2>6, <2>7 DEF WorkInv
<1>20. QED
  BY <1>1, <1>2, <1>3, <1>4, <1>5, <1>6, <1>7, <1>8, <1>9, <1>10, <1>11,
     <1>12, <1>13, <1>14, <1>15, <1>16, <1>17, <1>18, <1>19
  DEF VertexStep, LoopNext, ProcessNext

\* Pausing and resuming the engine forgets no work
LEMMA WorkEngineStep ==
    ASSUME WallClock = FALSE, SafeInv, SafeInv', WorkInv, EngineStep
    PROVE  WorkInv'
<1> USE EdgeAssumption, BoundAssumption, FlagAssumption
<1>1. CASE Pause
  <2>1. PrerequisitesNewer'
    BY <1>1
    DEF Pause, WorkInv, SafeInv, PrerequisitesNewer, VertexTypeOK, GraphTypeOK
  <2>2. PauseOrder'
    BY <1>1
    DEF Pause, WorkInv, SafeInv, PauseOrder, VertexTypeOK, EngineTypeOK
  <2>3. Starting'
    BY <1>1 DEF Pause, WorkInv, SafeInv, Starting, VertexTypeOK, PauseOrder
  <2>4. Clean'
    BY <1>1 DEF Pause, WorkInv, SafeInv, Clean, VertexTypeOK, Starting
  <2>5. Phases'
    BY <1>1
    DEF Pause, WorkInv, SafeInv, Phases, VertexTypeOK, GraphTypeOK, Starting
  <2>6. Behind'
    BY <1>1
    DEF Pause, WorkInv, SafeInv, Behind, VertexTypeOK, GraphTypeOK, Starting,
        Busy, Phases
  <2>7. Wakes'
    BY <1>1
    DEF Pause, WorkInv, SafeInv, Wakes, VertexTypeOK, GraphTypeOK,
        FastInPause, PauseOrder, Starting, Phases, Woken
  <2>8. QED
    BY <2>1, <2>2, <2>3, <2>4, <2>5, <2>6, <2>7 DEF WorkInv
<1>2. CASE Paused
  <2>1. PrerequisitesNewer'
    BY <1>2
    DEF Paused, WorkInv, SafeInv, PrerequisitesNewer, VertexTypeOK,
        GraphTypeOK
  <2>2. PauseOrder'
    BY <1>2
    DEF Paused, WorkInv, SafeInv, PauseOrder, VertexTypeOK, EngineTypeOK
  <2>3. Starting'
    BY <1>2 DEF Paused, WorkInv, SafeInv, Starting, VertexTypeOK, PauseOrder
  <2>4. Clean'
    BY <1>2 DEF Paused, WorkInv, SafeInv, Clean, VertexTypeOK, Starting
  <2>5. Phases'
    BY <1>2
    DEF Paused, WorkInv, SafeInv, Phases, VertexTypeOK, GraphTypeOK, Starting
  <2>6. Behind'
    BY <1>2
    DEF Paused, WorkInv, SafeInv, Behind, VertexTypeOK, GraphTypeOK, Starting,
        Busy, Phases
  <2>7. Wakes'
    BY <1>2
    DEF Paused, WorkInv, SafeInv, Wakes, VertexTypeOK, GraphTypeOK,
        FastInPause, PauseOrder, Starting, Phases, Woken
  <2>8. QED
    BY <2>1, <2>2, <2>3, <2>4, <2>5, <2>6, <2>7 DEF WorkInv
<1>3. CASE Resumed
  <2>1. PrerequisitesNewer'
    BY <1>3
    DEF Resumed, WorkInv, SafeInv, PrerequisitesNewer, VertexTypeOK,
        GraphTypeOK
  <2>2. PauseOrder'
    BY <1>3
    DEF Resumed, WorkInv, SafeInv, PauseOrder, VertexTypeOK, EngineTypeOK
  <2>3. Starting'
    BY <1>3 DEF Resumed, WorkInv, SafeInv, Starting, VertexTypeOK, PauseOrder
  <2>4. Clean'
    BY <1>3 DEF Resumed, WorkInv, SafeInv, Clean, VertexTypeOK, Starting
  <2>5. Phases'
    BY <1>3
    DEF Resumed, WorkInv, SafeInv, Phases, VertexTypeOK, GraphTypeOK, Starting
  <2>6. Behind'
    BY <1>3
    DEF Resumed, WorkInv, SafeInv, Behind, VertexTypeOK, GraphTypeOK,
        Starting, Busy, Phases
  <2>7. Wakes'
    BY <1>3
    DEF Resumed, WorkInv, SafeInv, Wakes, VertexTypeOK, GraphTypeOK,
        FastInPause, PauseOrder, Starting, Phases, Woken
  <2>8. QED
    BY <2>1, <2>2, <2>3, <2>4, <2>5, <2>6, <2>7 DEF WorkInv
<1>4. QED
  BY <1>1, <1>2, <1>3 DEF EngineStep

\* A step that changes nothing preserves the invariants
LEMMA Stutter ==
    /\ SafeInv /\ UNCHANGED vars => SafeInv'
    /\ WorkInv /\ UNCHANGED vars => WorkInv'
<1>1. SafeInv /\ UNCHANGED vars => SafeInv'
  BY DEF SafeInv, VertexTypeOK, GraphTypeOK, EngineTypeOK, FastInPause, Ordered
<1>2. WorkInv /\ UNCHANGED vars => WorkInv'
  BY DEF WorkInv, PrerequisitesNewer, PauseOrder, Starting, Clean, Phases,
      Behind, Wakes, Woken, Busy
<1>3. QED
  BY <1>1, <1>2

LEMMA Steps == [Next]_vars =>
    (\E v \in Vertex : VertexStep(v)) \/ EngineStep \/ UNCHANGED vars
  BY DEF Next, EngineNext, VertexStep, EngineStep

\* Types and the order of first runs, whatever the clock does
THEOREM SafeInvariance == Spec => []SafeInv
<1>1. SafeInv /\ [Next]_vars => SafeInv'
  BY Steps, SafeVertexStep, SafeEngineStep, Stutter
<1>2. QED
  BY <1>1, InitSafe, PTL DEF Spec

\* Every variable keeps its type, and fastPause is only set while Pause is at work
THEOREM TypeCorrect == Spec => []TypeOK
<1>1. SafeInv => TypeOK
  BY DEF SafeInv, TypeOK, FastInPause
<1>2. QED
  BY <1>1, SafeInvariance, PTL

\* A vertex first runs after all its prerequisites succeeded, in every graph and
\* whatever the clock does
THEOREM FirstRunsInOrder == Spec => []PrerequisitesFirst
<1>1. SafeInv => PrerequisitesFirst
  BY DEF SafeInv, Ordered
<1>2. QED
  BY <1>1, SafeInvariance, PTL

\* The argument why no work is lost, if the clock goes forward
THEOREM WorkInvariance ==
    ASSUME WallClock = FALSE
    PROVE  Spec => []WorkInv
<1>1. SafeInv /\ SafeInv' /\ WorkInv /\ [Next]_vars => WorkInv'
  BY Steps, WorkVertexStep, WorkEngineStep, Stutter
<1>2. QED
  BY <1>1, InitWork, SafeInvariance, PTL DEF Spec

\* Whoever works has prerequisites that succeeded more recently, in every graph
THEOREM RunsInOrder ==
    ASSUME WallClock = FALSE
    PROVE  Spec => []PrerequisitesNewer
<1>1. WorkInv => PrerequisitesNewer
  BY DEF WorkInv
<1>2. QED
  BY <1>1, WorkInvariance, PTL

\* When nothing moves any more, no work was forgotten, in every acyclic graph. A
\* vertex that waits has a prerequisite that waits, and one of them has none.
THEOREM NothingIsForgotten ==
    ASSUME WallClock = FALSE
    PROVE  Spec => []NoLostWork
<1>1. SafeInv /\ WorkInv => NoLostWork
  <2> SUFFICES ASSUME SafeInv, WorkInv, Quiescent
               PROVE  postponed = {} /\ \A v \in Vertex \ Noop : isStateOK[v]
    BY DEF NoLostWork
  <2>1. \A v \in postponed : \E p \in postponed : <<p, v>> \in Edge
    <3> SUFFICES ASSUME NEW v \in postponed
                 PROVE  \E p \in postponed : <<p, v>> \in Edge
      OBVIOUS
    <3>1. v \in Vertex /\ worker[v] = "idle" /\ ~poked[v] /\ ~event[v] /\ ~fastPause
      BY DEF SafeInv, GraphTypeOK, FastInPause, Quiescent
    <3>2. PICK p \in Vertex : <<p, v>> \in Edge /\ <<p, v>> \notin fresh
      BY <3>1 DEF WorkInv, Wakes, Woken, Quiescent
    <3>3. ~Busy(p)
      BY <3>2 DEF Busy, Quiescent
    <3>4. QED
      BY <3>1, <3>2, <3>3 DEF WorkInv, Behind
  <2>2. postponed = {}
    BY <2>1, DagAssumption DEF SafeInv, GraphTypeOK
  <2>3. QED
    BY <2>2 DEF WorkInv, Clean, Quiescent
<1>2. QED
  BY <1>1, SafeInvariance, WorkInvariance, PTL
=============================================================================

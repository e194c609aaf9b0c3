------------------------------- MODULE Worker -------------------------------
(***************************************************************************)
(* One vertex of the resource engine: the goroutines that Engine.Worker    *)
(* starts for it (engine/graph/actions.go), the State they share           *)
(* (engine/graph/state.go), and the engine goroutine that pauses, resumes, *)
(* interrupts and removes it (engine/graph/engine.go).                     *)
(*                                                                         *)
(* Goroutines: the Watch retry loop, the process loop, the close           *)
(* reverse-multiplexer, the engine. A send on an unbuffered channel and    *)
(* its receive are one step. Steps that touch only the variables of one    *)
(* goroutine are joined to the shared step before them.                    *)
(***************************************************************************)
EXTENDS Integers

CONSTANTS
    Mode,         \* what stands in for Watch: "watch", "poll", "once" or "hidden"
    Retry,        \* Meta:retry, negative for ever
    Inherited,    \* values a MetaState kept from an earlier Worker may hold
    Delay,        \* is Meta:delay > 0 ?
    RetryReset,   \* Meta:retryreset
    Limited,      \* is Meta:limit finite, so that an event may have to wait ?
    Noop,         \* Meta:noop
    Refreshable   \* is the resource an engine.RefreshableRes ?

ASSUME ModeAssumption == Mode \in {"watch", "poll", "once", "hidden"}
ASSUME RetryAssumption == Retry \in Int /\ Inherited \subseteq Int
ASSUME FlagAssumption == {Delay, RetryReset, Limited, Noop, Refreshable} \subseteq BOOLEAN

VARIABLES
    watch,        \* where the Watch retry loop is
    wretry,       \* its remaining retries
    noticed,      \* a running Watch has an event to send
    proc,         \* where the process loop is
    back,         \* the select that a paused process loop goes back to
    started,      \* has Watch sent its initial event ?
    failed,       \* has this vertex failed permanently ?
    closed,       \* has the process loop seen resumeSignal closed ?
    reserv,       \* was the last wakeup an event, which reserves from the limiter ?
    result,       \* what the last Process returned
    pokeChan,     \* is there a message in the buffer of one ?
    isStateOK,    \* the cached "nothing to do"
    refresh,      \* is a refresh of a refreshable resource pending on its edges ?
    refreshing,   \* what Process read of it
    CheckApplyRetry, \* metas.CheckApplyRetry
    pCancel,      \* is a cancel function registered ?
    cancelled,    \* was it called ? (the context of the running Process)
    doneChans,    \* which of the six done channels are closed
    doneCtx,      \* is doneCtx cancelled ?
    resumeClosed, \* is resumeSignal closed ?
    paused,       \* State.paused
    engine,       \* where the engine goroutine is, for this vertex
    interrupt,    \* SoftInterrupt: "off", "latched", or "done" (cancelProcess ran)
    panicked,     \* a Go panic: a double close, or a misuse of Pause or Resume
    wrong,        \* external: does the machine differ from what is declared ?
    genuine       \* history: did the last Process fail with its context intact ?

watchVars  == <<watch, wretry, noticed>>
loopVars   == <<proc, back, started, failed, closed, reserv, result>>
metaVars   == <<CheckApplyRetry, genuine>>
stateVars  == <<isStateOK, refresh, refreshing>>
ctxVars    == <<pCancel, cancelled>>
doneVars   == <<doneChans, doneCtx, resumeClosed>>
engineVars == <<paused, engine>>
vars == <<watchVars, loopVars, metaVars, ctxVars, doneVars, engineVars,
          stateVars, pokeChan, interrupt, panicked, wrong>>

Selects == {"select", "limit", "retry"}       \* the three selects on eventsChan
Processing == {"process", "receive", "checkapply", "store", "return"}

\* vertexAddFn and State.Init make the state; then the Worker starts, paused
Init ==
    /\ watch = "starting" /\ wretry = Retry /\ noticed = FALSE
    /\ proc = "wait" /\ back = "wait" /\ result = "none"
    /\ started = FALSE /\ failed = FALSE /\ closed = FALSE /\ reserv = FALSE
    /\ pokeChan = FALSE
    /\ isStateOK = FALSE /\ refresh = FALSE /\ refreshing = FALSE
    /\ CheckApplyRetry \in {Retry} \cup Inherited /\ genuine = FALSE
    /\ pCancel = FALSE /\ cancelled = FALSE
    /\ doneChans = {} /\ doneCtx = FALSE /\ resumeClosed = FALSE
    /\ paused = TRUE /\ engine = "paused"
    /\ interrupt = "off" /\ panicked = FALSE /\ wrong \in BOOLEAN

\* closing a closed channel panics
Close(chan) ==
    /\ doneChans' = doneChans \cup {chan}
    /\ panicked' = (panicked \/ chan \in doneChans)
    /\ UNCHANGED <<doneCtx, resumeClosed>>

-----------------------------------------------------------------------------
(* The Watch retry loop                                                    *)

\* top of the retry loop
WatchAgain == IF Delay THEN "delay" ELSE "starting"

WatchDelayExpired ==
    /\ watch = "delay"
    /\ watch' = "starting"
    /\ UNCHANGED <<wretry, noticed, loopVars, metaVars, ctxVars, doneVars,
                   engineVars, pokeChan, stateVars, interrupt, panicked, wrong>>

\* Watch, its delay and a blocked Event all return when doneCtx is cancelled;
\* a Watch may also return nil unasked
WatchExit ==
    /\ \/ watch \in {"delay", "starting", "running"} /\ doneCtx
       \/ watch \in {"starting", "running"} /\ Mode = "watch"
    /\ watch' = "exited"          \* closes eventsChan
    /\ noticed' = FALSE
    /\ UNCHANGED <<wretry, loopVars, metaVars, ctxVars, doneVars, engineVars,
                   pokeChan, stateVars, interrupt, panicked, wrong>>

\* the resource's Watch, or a panic in it, returns an error
WatchFail ==
    /\ Mode = "watch" /\ watch \in {"starting", "running"}
    /\ watch' = "failed"
    /\ noticed' = FALSE
    /\ UNCHANGED <<wretry, loopVars, metaVars, ctxVars, doneVars, engineVars,
                   pokeChan, stateVars, interrupt, panicked, wrong>>

\* mutant: no Process is ever cancelled
cancelNothing == UNCHANGED cancelled

\* cancelProcess: cancels the context of a running Process, if there is one
cancelProcess == cancelled' = (cancelled \/ pCancel)

\* a failed Watch cancels any running Process, then sends the restart sentinel
\* or its last error
WatchCancelsProcess ==
    /\ watch = "failed"
    /\ cancelProcess
    /\ watch' = IF wretry # 0 THEN "restarting" ELSE "erroring"
    /\ UNCHANGED <<wretry, noticed, loopVars, metaVars, pCancel, doneVars,
                   engineVars, pokeChan, stateVars, interrupt, panicked, wrong>>

\* "don't decrement past 0"; negative is for ever
SpendRetry(retry) == IF retry > 0 THEN retry - 1 ELSE retry

WatchRestarts == watch' = WatchAgain /\ wretry' = SpendRetry(wretry)

\* the send of the sentinel gives way to doneCtx
WatchSkipsSentinel ==
    /\ watch = "restarting" /\ doneCtx
    /\ WatchRestarts
    /\ UNCHANGED <<noticed, loopVars, metaVars, ctxVars, doneVars, engineVars,
                   pokeChan, stateVars, interrupt, panicked, wrong>>

\* Meta:poll sends an event at every tick, and a Watch may send one although
\* nothing that matters has changed
PollTick ==
    /\ Mode \in {"watch", "poll"} /\ watch = "running" /\ ~noticed
    /\ noticed' = TRUE
    /\ UNCHANGED <<watch, wretry, loopVars, metaVars, ctxVars, doneVars,
                   engineVars, pokeChan, stateVars, interrupt, panicked, wrong>>

-----------------------------------------------------------------------------
(* The process loop: receives                                              *)

\* mutant: the initial event is not awaited
MayProcessUnstarted(isStarted, isClosed) == ~failed /\ ~isClosed

\* "don't Process anymore if we've already failed or shutdown", nor before the
\* initial event from Watch
MayProcess(isStarted, isClosed) == ~failed /\ ~isClosed /\ isStarted

\* mutant: the sender of the event marks the state, the receiver does not
setDirtyOnSend == UNCHANGED stateVars

setDirty == isStateOK' = FALSE /\ UNCHANGED <<refresh, refreshing>>

\* the loop body after the main select, up to the Process retry loop
PassThrough(isStarted, isClosed, isReserv) ==
    /\ pokeChan' = FALSE                    \* drop redundant pokes
    /\ IF MayProcess(isStarted, isClosed)
         THEN proc' = "check" \/ (Limited /\ isReserv /\ proc' = "limit")
         ELSE proc' = "select"

HasEvent == watch = "starting" \/ (watch = "running" /\ noticed)

\* main select: an event, initial or not, marks the state dirty and runs Process
RecvEvent ==
    /\ proc = "select" /\ HasEvent
    /\ watch' = "running" /\ noticed' = FALSE
    /\ setDirty
    /\ started' = TRUE /\ reserv' = TRUE
    /\ PassThrough(TRUE, closed, TRUE)
    /\ UNCHANGED <<wretry, back, failed, closed, result, metaVars, ctxVars,
                   doneVars, engineVars, interrupt, panicked, wrong>>

\* satellite selects: an event only marks the state dirty
RecvEventWhileWaiting ==
    /\ proc \in {"limit", "retry"} /\ HasEvent
    /\ watch' = "running" /\ noticed' = FALSE
    /\ setDirty
    /\ UNCHANGED <<wretry, loopVars, metaVars, ctxVars, doneVars, engineVars,
                   pokeChan, interrupt, panicked, wrong>>

\* any of the three selects: errWatchRestart
RecvWatchRestart ==
    /\ proc \in Selects /\ watch = "restarting"
    /\ WatchRestarts
    /\ started' = FALSE
    /\ UNCHANGED <<noticed, proc, back, failed, closed, reserv, result, metaVars,
                   ctxVars, doneVars, engineVars, pokeChan, stateVars, interrupt,
                   panicked, wrong>>

\* any of the three selects: the last error of Watch
RecvWatchError ==
    /\ proc \in Selects /\ watch = "erroring"
    /\ watch' = "exited"
    /\ failed' = TRUE
    /\ Close(CASE proc = "select" -> "watch"
               [] proc = "limit"  -> "limit"
               [] proc = "retry"  -> "retry")
    /\ proc' = IF proc = "retry" THEN "check" ELSE "select"
    /\ UNCHANGED <<wretry, noticed, back, started, closed, reserv, result,
                   metaVars, ctxVars, engineVars, pokeChan, stateVars, interrupt,
                   wrong>>

\* any of the three selects: eventsChan is closed, the process loop returns and
\* its first deferred call closes eventsDone
RecvClosed ==
    /\ proc \in Selects /\ watch = "exited"
    /\ proc' = "returned"
    /\ Close("events")
    /\ UNCHANGED <<watchVars, back, started, failed, closed, reserv, result,
                   metaVars, ctxVars, engineVars, pokeChan, stateVars, interrupt,
                   wrong>>

RecvPoke ==
    /\ proc = "select" /\ pokeChan
    /\ reserv' = FALSE
    /\ PassThrough(started, closed, FALSE)
    /\ UNCHANGED <<watchVars, back, started, failed, closed, result, metaVars,
                   ctxVars, doneVars, engineVars, stateVars, interrupt, panicked,
                   wrong>>

LimitExpired ==
    /\ proc = "limit"
    /\ proc' = IF MayProcess(started, closed) THEN "check" ELSE "select"
    /\ UNCHANGED <<watchVars, back, started, failed, closed, reserv, result,
                   metaVars, ctxVars, doneVars, engineVars, pokeChan, stateVars,
                   interrupt, panicked, wrong>>

RetryExpired ==
    /\ proc = "retry"
    /\ proc' = "check"
    /\ UNCHANGED <<watchVars, back, started, failed, closed, reserv, result,
                   metaVars, ctxVars, doneVars, engineVars, pokeChan, stateVars,
                   interrupt, panicked, wrong>>

-----------------------------------------------------------------------------
(* The process loop: Process and its retries                               *)

\* mutant: the retry loop has no select of its own for pauseSignal
PausePointsSelects == Selects

\* where the process loop receives from pauseSignal: the main select, the two
\* satellite selects, and the non-blocking select before a Process
PausePoints == Selects \cup {"check"}

\* check the flags, then register a fresh context, a child of doneCtx
EnterProcess(isClosed) ==
    IF MayProcess(started, isClosed)
      THEN proc' = "process" /\ pCancel' = TRUE /\ cancelled' = FALSE
      ELSE proc' = "select" /\ UNCHANGED ctxVars

\* the non-blocking select finds no Pause waiting
BeginProcess ==
    /\ proc = "check" /\ ("check" \in PausePoints => engine # "pausing")
    /\ EnterProcess(closed)
    /\ UNCHANGED <<watchVars, back, started, failed, closed, reserv, result,
                   metaVars, doneVars, engineVars, pokeChan, stateVars, interrupt,
                   panicked, wrong>>

ProcessCtxErr == cancelled \/ doneCtx

\* Process looks at the interrupt latch before anything else
Process ==
    /\ proc = "process"
    /\ \/ /\ interrupt = "off"
          /\ proc' = "receive" /\ UNCHANGED <<result, genuine>>
       \/ /\ interrupt # "off" /\ genuine' = FALSE
          /\ proc' = "return" /\ result' = IF ProcessCtxErr THEN "error" ELSE "nil"
    /\ UNCHANGED <<watchVars, back, started, failed, closed, reserv,
                   CheckApplyRetry, ctxVars, doneVars, engineVars, pokeChan,
                   stateVars, interrupt, panicked, wrong>>

\* a timestamp that is not in sequence, a failed SendRecv, or a failed Validate of
\* values that were received and so marked the state dirty
ProcessGivesUp ==
    /\ proc = "receive"
    /\ proc' = "return" /\ result' \in {"backpoke", "error"}
    /\ isStateOK' \in {isStateOK, isStateOK /\ result' = "backpoke"}
    /\ genuine' = ~ProcessCtxErr
    /\ refreshing' = FALSE
    /\ UNCHANGED <<watchVars, back, started, failed, closed, reserv,
                   CheckApplyRetry, ctxVars, doneVars, engineVars, pokeChan,
                   refresh, interrupt, panicked, wrong>>

\* mutant: the cached state is trusted although a refresh is pending
CheckApplyNeededDirty(dirty, isRefresh) == Mode # "hidden" /\ dirty

\* is CheckApply called ? Not if the cached state is good and there is no refresh,
\* not for a refresh under Meta:noop, and not if the resource is hidden
CheckApplyNeeded(dirty, isRefresh) ==
    (dirty \/ isRefresh) /\ ~(Noop /\ isRefresh) /\ Mode # "hidden"

\* Process, up to the call of CheckApply: a changed value that SendRecv receives
\* marks the state dirty, then the refresh and the cached state are read
ProcessReceives ==
    /\ proc = "receive"
    /\ isStateOK' \in {isStateOK, FALSE}
    /\ refreshing' = refresh
    /\ proc' = IF CheckApplyNeeded(~isStateOK', refresh) THEN "checkapply" ELSE "store"
    /\ UNCHANGED <<watchVars, back, started, failed, closed, reserv, result,
                   metaVars, ctxVars, doneVars, engineVars, pokeChan, refresh,
                   interrupt, panicked, wrong>>

\* external: CheckApply repairs the machine, unless it only checks
CheckApplyOK ==
    /\ proc = "checkapply"
    /\ proc' = "store"
    /\ wrong' = (wrong /\ Noop)
    /\ UNCHANGED <<watchVars, back, started, failed, closed, reserv, result,
                   metaVars, ctxVars, doneVars, engineVars, pokeChan, stateVars,
                   interrupt, panicked>>

\* external: CheckApply, or the exporter that runs next to it, errors by itself or
\* because its context was cancelled
CheckApplyError ==
    /\ proc \in {"checkapply", "store"}
    /\ proc' = "return" /\ result' = "error"
    /\ genuine' = ~ProcessCtxErr
    /\ refreshing' = FALSE
    /\ UNCHANGED <<watchVars, back, started, failed, closed, reserv,
                   CheckApplyRetry, ctxVars, doneVars, engineVars, pokeChan,
                   isStateOK, refresh, interrupt, panicked, wrong>>

\* the end of Process after a CheckApply without error
ProcessStores ==
    /\ proc = "store"
    /\ proc' = "return" /\ result' = "nil"
    /\ isStateOK' = (isStateOK \/ ~Noop)
    /\ refresh' = (refresh /\ (Noop \/ ~refreshing))     \* SetUpstreamRefresh
    /\ refreshing' = FALSE
    /\ UNCHANGED <<watchVars, back, started, failed, closed, reserv, metaVars,
                   ctxVars, doneVars, engineVars, pokeChan, interrupt, panicked,
                   wrong>>

\* mutants: the context is read after it was cancelled to clean up; never read
InterruptedLate == ~doneCtx
InterruptedNever == FALSE

\* a restarting Watch or SoftInterrupt cancelled this Process
Interrupted == cancelled /\ ~doneCtx

\* the rest of the retry loop body: what comes of the error that Process returned
ProcessReturns ==
    /\ proc = "return"
    /\ pCancel' = FALSE
    /\ IF result # "error" \/ Interrupted
         THEN /\ proc' = "select"
              /\ IF result = "nil" /\ RetryReset
                   THEN CheckApplyRetry' = Retry
                   ELSE UNCHANGED CheckApplyRetry
              /\ UNCHANGED <<failed, doneVars, panicked>>
         ELSE /\ proc' = IF Delay THEN "retry" ELSE "check"
              /\ CheckApplyRetry' = SpendRetry(CheckApplyRetry)
              /\ IF CheckApplyRetry = 0
                   THEN failed' = TRUE /\ Close("process")
                   ELSE UNCHANGED <<failed, doneVars, panicked>>
    /\ UNCHANGED <<watchVars, back, started, closed, reserv, result, genuine,
                   cancelled, engineVars, pokeChan, stateVars, interrupt, wrong>>

\* the wait group of the Worker empties: Watch and the multiplexer are gone
WorkerExit ==
    /\ proc = "returned" /\ watch = "exited" /\ doneCtx
    /\ proc' = "exited"
    /\ UNCHANGED <<watchVars, back, started, failed, closed, reserv, result,
                   metaVars, ctxVars, doneVars, engineVars, pokeChan, stateVars,
                   interrupt, panicked, wrong>>

-----------------------------------------------------------------------------
(* The reverse-multiplexer                                                 *)

\* mutant: the removal is missing from the select
MultiplexNoRemove ==
    /\ doneChans \ {"remove"} # {} /\ ~doneCtx
    /\ doneCtx' = TRUE
    /\ UNCHANGED <<watchVars, loopVars, metaVars, ctxVars, doneChans,
                   resumeClosed, engineVars, pokeChan, stateVars, interrupt,
                   panicked, wrong>>

Multiplex ==
    /\ doneChans # {} /\ ~doneCtx
    /\ doneCtx' = TRUE
    /\ UNCHANGED <<watchVars, loopVars, metaVars, ctxVars, doneChans,
                   resumeClosed, engineVars, pokeChan, stateVars, interrupt,
                   panicked, wrong>>

-----------------------------------------------------------------------------
(* The engine goroutine                                                    *)

\* State.Pause, up to its select
PauseBegin ==
    /\ engine = "idle"
    /\ IF paused THEN /\ engine' = "paused"               \* ErrClosed, or a panic
                      /\ panicked' = (panicked \/ ~doneCtx)
                 ELSE engine' = "pausing" /\ UNCHANGED panicked
    /\ UNCHANGED <<watchVars, loopVars, metaVars, ctxVars, doneVars, paused,
                   pokeChan, stateVars, interrupt, wrong>>

PauseAck ==
    /\ engine = "pausing" /\ proc \in PausePoints
    /\ engine' = "paused" /\ paused' = TRUE
    /\ proc' = "paused" /\ back' = proc
    /\ UNCHANGED <<watchVars, started, failed, closed, reserv, result, metaVars,
                   ctxVars, doneVars, pokeChan, stateVars, interrupt, panicked,
                   wrong>>

PauseErrClosed ==
    /\ engine = "pausing" /\ doneCtx
    /\ engine' = "paused"
    /\ UNCHANGED <<watchVars, loopVars, metaVars, ctxVars, doneVars, paused,
                   pokeChan, stateVars, interrupt, panicked, wrong>>

\* State.Resume, up to its select
ResumeBegin ==
    /\ engine = "paused"
    /\ engine' = "resuming"
    /\ panicked' = (panicked \/ (~paused /\ ~doneCtx))
    /\ UNCHANGED <<watchVars, loopVars, metaVars, ctxVars, doneVars, paused,
                   pokeChan, stateVars, interrupt, wrong>>

\* where a process loop goes when resumeSignal lets it go
Released(isClosed) ==
    \/ proc = "wait" /\ proc' = "select" /\ UNCHANGED <<pokeChan, ctxVars>>
    \/ /\ proc = "paused" /\ back = "select"
       /\ PassThrough(started, isClosed, reserv) /\ UNCHANGED ctxVars
    \/ /\ proc = "paused" /\ back \in {"limit", "retry"}
       /\ proc' = back /\ UNCHANGED <<pokeChan, ctxVars>>
    \/ /\ proc = "paused" /\ back = "check"
       /\ EnterProcess(isClosed) /\ UNCHANGED pokeChan

ResumeAck ==
    /\ engine = "resuming"
    /\ Released(closed)
    /\ engine' = "idle" /\ paused' = FALSE
    /\ UNCHANGED <<watchVars, back, started, failed, closed, reserv, result,
                   metaVars, doneVars, stateVars, interrupt, panicked, wrong>>

ResumeErrClosed ==
    /\ engine = "resuming" /\ doneCtx
    /\ engine' = "idle"
    /\ UNCHANGED <<watchVars, loopVars, metaVars, ctxVars, doneVars, paused,
                   pokeChan, stateVars, interrupt, panicked, wrong>>

\* vertexRemoveFn: close removeDone and resumeSignal, then wait for the Worker
Remove ==
    /\ engine = "paused"
    /\ engine' = "removing"
    /\ doneChans' = doneChans \cup {"remove"} /\ resumeClosed' = TRUE
    /\ panicked' = (panicked \/ "remove" \in doneChans \/ resumeClosed)
    /\ UNCHANGED <<watchVars, loopVars, metaVars, ctxVars, doneCtx, paused,
                   pokeChan, stateVars, interrupt, wrong>>

ResumeClosed ==
    /\ resumeClosed
    /\ Released(TRUE)
    /\ closed' = TRUE
    /\ UNCHANGED <<watchVars, back, started, failed, reserv, result, metaVars,
                   doneVars, engineVars, stateVars, interrupt, panicked, wrong>>

Removed ==
    /\ engine = "removing" /\ proc = "exited"
    /\ engine' = "removed"
    /\ UNCHANGED <<watchVars, loopVars, metaVars, ctxVars, doneVars, paused,
                   pokeChan, stateVars, interrupt, panicked, wrong>>

\* SoftInterrupt sets the latch first and cancels the running Process second
InterruptLatch ==
    /\ interrupt = "off" /\ engine # "removed"
    /\ interrupt' = "latched"
    /\ UNCHANGED <<watchVars, loopVars, metaVars, ctxVars, doneVars, engineVars,
                   pokeChan, stateVars, panicked, wrong>>

InterruptCancel ==
    /\ interrupt = "latched"
    /\ interrupt' = "done"
    /\ cancelProcess
    /\ UNCHANGED <<watchVars, loopVars, metaVars, pCancel, doneVars, engineVars,
                   pokeChan, stateVars, panicked, wrong>>

-----------------------------------------------------------------------------
(* The surroundings                                                        *)

\* a neighbour pokes us: State.Poke never blocks
Poke ==
    /\ proc # "exited"
    /\ pokeChan' = TRUE
    /\ UNCHANGED <<watchVars, loopVars, metaVars, ctxVars, doneVars, engineVars,
                   stateVars, interrupt, panicked, wrong>>

\* a neighbour that did some work sets the refresh flag of its edge to us
SetDownstreamRefresh ==
    /\ Refreshable /\ ~refresh /\ engine # "removed"
    /\ refresh' = TRUE
    /\ UNCHANGED <<watchVars, loopVars, metaVars, ctxVars, doneVars, engineVars,
                   isStateOK, refreshing, pokeChan, interrupt, panicked, wrong>>

\* external: the machine changes; a Watch that is listening will send an event
Change ==
    /\ ~wrong /\ engine # "removed"
    /\ wrong' = TRUE
    /\ noticed' = (noticed \/ (Mode = "watch" /\ watch = "running"))
    /\ UNCHANGED <<watch, wretry, loopVars, metaVars, ctxVars, doneVars,
                   engineVars, pokeChan, stateVars, interrupt, panicked>>

\* nothing is left to do once the vertex is gone
Terminated == engine = "removed" /\ UNCHANGED vars

WatchNext ==
    WatchDelayExpired \/ WatchExit \/ WatchFail \/ WatchCancelsProcess
        \/ WatchSkipsSentinel \/ PollTick

ReceiveNext ==
    RecvEvent \/ RecvEventWhileWaiting \/ RecvWatchRestart \/ RecvWatchError
        \/ RecvClosed \/ RecvPoke \/ LimitExpired \/ RetryExpired

ProcessNext ==
    BeginProcess \/ Process \/ ProcessGivesUp \/ ProcessReceives \/ CheckApplyOK
        \/ CheckApplyError \/ ProcessStores \/ ProcessReturns \/ WorkerExit

EngineNext ==
    PauseBegin \/ PauseAck \/ PauseErrClosed \/ ResumeBegin \/ ResumeAck
        \/ ResumeErrClosed \/ Remove \/ ResumeClosed \/ Removed
        \/ InterruptLatch \/ InterruptCancel

Next == WatchNext \/ ReceiveNext \/ ProcessNext \/ EngineNext \/ Multiplex
            \/ Poke \/ SetDownstreamRefresh \/ Change \/ Terminated

Spec == Init /\ [][Next]_vars

(***************************************************************************)
(* Goroutines that can run do run; a select that finds the same case ready *)
(* again and again picks it in the end (Go chooses at random among the     *)
(* ready cases); Watch returns when its context is cancelled and           *)
(* CheckApply returns (docs/resource-guide.md). The engine resumes or      *)
(* removes what it paused. Watch never has to fail, nobody has to poke,    *)
(* pause or interrupt, and the machine never has to change.                *)
(***************************************************************************)
Fairness ==
    /\ WF_vars(WatchDelayExpired) /\ SF_vars(doneCtx /\ WatchExit)
    /\ WF_vars(WatchCancelsProcess) /\ WF_vars(WatchSkipsSentinel)
    /\ WF_vars(ProcessNext) /\ SF_vars(LimitExpired \/ RetryExpired)
    /\ SF_vars(RecvWatchRestart \/ RecvWatchError \/ RecvClosed)
    /\ WF_vars(Multiplex)
    /\ SF_vars(PauseAck \/ PauseErrClosed) /\ WF_vars(ResumeBegin \/ Remove)
    /\ WF_vars(ResumeAck \/ ResumeErrClosed) /\ SF_vars(ResumeAck)
    /\ WF_vars(ResumeClosed) /\ WF_vars(Removed)

FairSpec == Spec /\ Fairness

(***************************************************************************)
(* Properties                                                              *)
(***************************************************************************)

WatchStates == {"delay", "starting", "running", "failed", "restarting",
                "erroring", "exited"}
ProcStates == {"wait", "paused", "check", "returned", "exited"}
                \cup Selects \cup Processing
EngineStates == {"idle", "pausing", "paused", "resuming", "removing", "removed"}
DoneChans == {"process", "watch", "limit", "retry", "remove", "events"}

WatchTypeOK ==
    watch \in WatchStates /\ wretry \in {Retry} \cup Nat /\ noticed \in BOOLEAN
LoopTypeOK ==
    /\ proc \in ProcStates /\ back \in Selects \cup {"wait", "check"}
    /\ started \in BOOLEAN /\ failed \in BOOLEAN /\ closed \in BOOLEAN
    /\ reserv \in BOOLEAN /\ result \in {"none", "nil", "backpoke", "error"}
SharedTypeOK ==
    /\ pokeChan \in BOOLEAN /\ wrong \in BOOLEAN
    /\ isStateOK \in BOOLEAN /\ refresh \in BOOLEAN /\ refreshing \in BOOLEAN
    /\ CheckApplyRetry \in {Retry} \cup Inherited \cup Nat /\ genuine \in BOOLEAN
    /\ pCancel \in BOOLEAN /\ cancelled \in BOOLEAN
EngineTypeOK ==
    /\ doneChans \subseteq DoneChans
    /\ doneCtx \in BOOLEAN /\ resumeClosed \in BOOLEAN
    /\ paused \in BOOLEAN /\ engine \in EngineStates
    /\ interrupt \in {"off", "latched", "done"} /\ panicked \in BOOLEAN

\* Type invariant: every field of State and every local variable of Worker keeps
\* to the values the code can store in it.
TypeOK == WatchTypeOK /\ LoopTypeOK /\ SharedTypeOK /\ EngineTypeOK

\* Engine.Resume: "No CheckApply methods may run when we are paused." From the
\* return of Pause to the call of Resume, and while the vertex is removed, no
\* Process runs, whether Pause was acknowledged or returned ErrClosed.
NoProcessWhilePaused ==
    engine \in {"paused", "removing", "removed"} => proc \notin Processing

\* The engine never panics on this vertex: none of the done channels nor
\* resumeSignal is closed twice, Pause never meets a live paused vertex and
\* Resume never meets a live running one, in whatever order failures, pauses
\* and the removal happen.
NoPanic == ~panicked

\* A Process never has doneCtx taken away from under it: each of the closes that
\* cancel doneCtx happens when no Process runs and none will run again. Worker
\* relies on it to tell an interrupted Process from a failed one.
DoneNeverHitsProcess == proc \in Processing => ~doneCtx /\ doneChans = {}

\* The first half of the comment on cancelProcess: "a restarting Watch must never
\* overlap with a running Process". From the moment the restart sentinel is taken
\* until the initial event of the new Watch, no Process runs.
RestartNeverOverlaps == watch \in {"delay", "starting"} => proc \notin Processing

\* An event is not swallowed by a Process that was already running when the
\* machine changed: if the cached state says OK although the machine is wrong,
\* then Watch still holds the event that will mark the state dirty.
NoSwallowedChange ==
    Mode = "watch" /\ wrong /\ isStateOK => watch # "running" \/ noticed

\* An idle, live vertex is dirty only for a reason that will bring Process back:
\* its prerequisites have yet to poke it, Watch is about to restart, or the
\* engine is on its way out.
IdleIsClean ==
    /\ proc = "select" /\ started /\ ~failed /\ ~closed /\ ~isStateOK /\ ~Noop
    => result = "backpoke" \/ interrupt # "off" \/ doneCtx
         \/ watch \in {"failed", "restarting", "erroring", "exited"}

\* SoftInterrupt leaves no Process running on a live context: every Process that
\* got past the latch is cancelled, every later one skips CheckApply.
InterruptReaches ==
    interrupt = "done" /\ proc \in {"receive", "checkapply"} => cancelled

RetryIsSpent == result = "error" /\ CheckApplyRetry' < CheckApplyRetry
ProcessFails == "process" \in doneChans' \ doneChans

\* An interrupted Process costs no retry and never fails the vertex: the budget
\* only goes down, and processDone only closes, after an error that Process
\* returned on an intact context.
RetryOnlyOnFailure == [][RetryIsSpent \/ ProcessFails => genuine]_vars

\* What Worker is to the rest of the engine
HeldAs ==
    IF engine = "paused" THEN "yes" ELSE IF engine = "removing" THEN "end"
    ELSE IF engine = "removed" THEN "gone" ELSE "no"
WorkAs == IF proc \in Processing THEN proc ELSE "idle"
Dead == failed \/ closed \/ proc \in {"returned", "exited"}

Contract == INSTANCE Vertex WITH
    Hidden <- Mode = "hidden", held <- HeldAs, work <- WorkAs,
    clean <- isStateOK, due <- refresh, seen <- refreshing, dead <- Dead,
    stopped <- interrupt # "off"

\* A Worker, with all its goroutines, is a Vertex: Pause and Resume bracket its
\* work; CheckApply is called exactly if the vertex was dirty, received a value or
\* had a refresh to do; it is called clean, and the refresh done, only after a
\* CheckApply that saw what there was to do; a dead one never runs again, and after
\* SoftInterrupt none gets past the latch.
IsVertex == Contract!Spec

\* Pause returns: however often CheckApply fails and is retried at once, the
\* process loop takes the pause between two of its runs. (State.Pause blocks on an
\* unbuffered send, and Engine.Pause holds up every vertex behind this one.)
PauseReturns == engine = "pausing" ~> engine = "paused"

\* The removal of a paused vertex ends: whatever it had failed at, and wherever
\* its process loop was paused, both goroutines of the Worker exit.
RemoveReturns == engine = "removing" ~> engine = "removed"

(***************************************************************************)
(* What comments of the code say, and the code does not do                 *)
(***************************************************************************)

\* Worker: pokes that come before the initial event may be skipped, "since the
\* guaranteed initial event always runs Process, which subsumes them". Once the
\* current Watch has sent its initial event, an idle live vertex is started.
InitialEventStarts ==
    watch = "running" /\ proc = "select" /\ ~failed /\ ~closed => started
=============================================================================

----------------------------- MODULE Converger -----------------------------
(***************************************************************************)
(* The converger (converger/converger.go): a Coordinator whose main loop   *)
(* decides whether the machine is converged, and the UIDs through which    *)
(* the goroutines of the engine report activity. Each UID has a timer that *)
(* marks it converged after Duration without activity.                     *)
(*                                                                         *)
(* A UID is used under its own mutex; its atomic flag is read by the main  *)
(* loop without it, so storing the flag and poking the loop are two steps. *)
(* The main loop reads the flags one after the other.                      *)
(***************************************************************************)
EXTENDS Integers, FiniteSets

CONSTANTS
    UID,          \* every UID that is ever registered
    Duration,     \* Timeout in ticks of the clock, negative when disabled
    MaxTime       \* bound: the clock stops there

ASSUME DurationAssumption == Duration \in Int
ASSUME TimeAssumption == MaxTime \in Nat

NoHold == -1      \* the zero time.Time: hold for ever, or not at all

VARIABLES
    now,          \* the clock
    status,       \* obj.status: the registered UIDs
    spent,        \* UIDs that were unregistered, never to come back
    running,      \* UID.running
    isConverged,  \* UID.converged
    timer,        \* UID.timer: "nil", "armed", or "fired" (its callback runs)
    stale,        \* is a callback under way whose timer was replaced or stopped ?
    deadline,     \* when the armed timer fires
    owesPoke,     \* holds the mutex of this UID, between the store and the poke
    active,       \* history: the time of the last activity
    pokeChan,     \* is there a message in the buffer of one ?
    pc,           \* where the main loop is
    at,           \* the time that recalculate was given
    unread,       \* UIDs that convergedSnapshot has yet to look at
    snapshot,     \* what it found so far
    converged,    \* obj.converged
    paused,       \* obj.paused
    holdUntil,    \* obj.holdUntil
    holdTimer,    \* the deadline of the armed hold timer, or NoHold
    lastStatusCount,
    ctxDone,      \* is obj.ctx cancelled ? (Run's own, a child of its caller's)
    control       \* the caller of Pause and Resume

uidVars  == <<running, isConverged, timer, stale, deadline, owesPoke, active>>
regVars  == <<status, spent>>
loopVars == <<pc, at, unread, snapshot, converged, lastStatusCount>>
holdVars == <<holdUntil, holdTimer>>
ctlVars  == <<paused, control, ctxDone>>
vars == <<now, regVars, uidVars, pokeChan, loopVars, holdVars, ctlVars>>

Holds == Duration >= 0

\* Run starts unpaused (lib/main.go), with nobody registered
Init ==
    /\ now = 0 /\ status = {} /\ spent = {}
    /\ running = [u \in UID |-> FALSE] /\ isConverged = [u \in UID |-> FALSE]
    /\ timer = [u \in UID |-> "nil"] /\ stale = [u \in UID |-> FALSE]
    /\ deadline = [u \in UID |-> 0] /\ owesPoke = [u \in UID |-> FALSE]
    /\ active = [u \in UID |-> 0]
    /\ pokeChan = FALSE /\ pc = "top" /\ at = 0
    /\ unread = {} /\ snapshot = FALSE
    /\ converged = FALSE /\ lastStatusCount = 0
    /\ holdUntil = (IF Holds THEN Duration ELSE NoHold) /\ holdTimer = NoHold
    /\ paused = FALSE /\ control = "resumed" /\ ctxDone = FALSE

Tick ==
    /\ now < MaxTime
    /\ now' = now + 1
    /\ UNCHANGED <<regVars, uidVars, pokeChan, loopVars, holdVars, ctlVars>>

-----------------------------------------------------------------------------
(* The UIDs                                                                *)

AllConverged == \A u \in status : isConverged[u]

\* mutant: only the turn to converged pokes
PokesConvergedOnly(u, value) == value /\ ~isConverged[u]

\* setConvergedChanged: does the new value call for a poke ?
PokesIfChanged(u, value) == isConverged[u] # value

\* Register and Unregister take the mutex that convergedSnapshot reads under
Register(u) ==
    /\ u \notin status \cup spent /\ pc # "snapshot"
    /\ status' = status \cup {u} /\ UNCHANGED spent
    /\ pokeChan' = TRUE
    /\ UNCHANGED <<now, uidVars, loopVars, holdVars, ctlVars>>

Unregister(u) ==
    /\ u \in status /\ pc # "snapshot" /\ ~owesPoke[u]
    /\ status' = status \ {u} /\ spent' = spent \cup {u}
    /\ running' = [running EXCEPT ![u] = FALSE]           \* StopTimer
    /\ isConverged' = [isConverged EXCEPT ![u] = FALSE]
    /\ stale' = [stale EXCEPT ![u] = @ \/ timer[u] = "fired"]
    /\ timer' = [timer EXCEPT ![u] = "nil"]
    /\ pokeChan' = TRUE
    /\ UNCHANGED <<now, deadline, owesPoke, active, loopVars, holdVars, ctlVars>>

\* stopTimer: a timer that already fired has a callback under way
stopTimer(u) == stale' = [stale EXCEPT ![u] = @ \/ timer[u] = "fired"]

resetTimer(u) ==
    /\ stopTimer(u)
    /\ IF Holds THEN /\ timer' = [timer EXCEPT ![u] = "armed"]
                     /\ deadline' = [deadline EXCEPT ![u] = now + Duration]
                ELSE timer' = [timer EXCEPT ![u] = "nil"] /\ UNCHANGED deadline

setConvergedChanged(u, value) ==
    /\ isConverged' = [isConverged EXCEPT ![u] = value]
    /\ owesPoke' = [owesPoke EXCEPT ![u] = PokesIfChanged(u, value)]

StartTimer(u) ==
    /\ u \in status /\ ~owesPoke[u]
    /\ running' = [running EXCEPT ![u] = TRUE]
    /\ active' = [active EXCEPT ![u] = now]
    /\ setConvergedChanged(u, FALSE)
    /\ resetTimer(u)
    /\ UNCHANGED <<now, regVars, pokeChan, loopVars, holdVars, ctlVars>>

StopTimer(u) ==
    /\ u \in status /\ ~owesPoke[u] /\ running[u]
    /\ running' = [running EXCEPT ![u] = FALSE]
    /\ setConvergedChanged(u, FALSE)
    /\ stopTimer(u) /\ timer' = [timer EXCEPT ![u] = "nil"]
    /\ UNCHANGED <<now, regVars, deadline, active, pokeChan, loopVars, holdVars,
                   ctlVars>>

ResetTimer(u) ==
    /\ u \in status /\ ~owesPoke[u] /\ running[u]
    /\ active' = [active EXCEPT ![u] = now]
    /\ setConvergedChanged(u, FALSE)
    /\ resetTimer(u)
    /\ UNCHANGED <<now, regVars, running, pokeChan, loopVars, holdVars, ctlVars>>

\* the runtime starts the callback of a timer
Fire(u) ==
    /\ timer[u] = "armed" /\ now >= deadline[u]
    /\ timer' = [timer EXCEPT ![u] = "fired"]
    /\ UNCHANGED <<now, regVars, running, isConverged, stale, deadline, owesPoke,
                   active, pokeChan, loopVars, holdVars, ctlVars>>

\* the callback gets the mutex
Callback(u) ==
    /\ timer[u] = "fired" /\ ~owesPoke[u]
    /\ timer' = [timer EXCEPT ![u] = "nil"]
    /\ setConvergedChanged(u, TRUE)
    /\ UNCHANGED <<now, regVars, running, stale, deadline, active, pokeChan,
                   loopVars, holdVars, ctlVars>>

\* mutant: the callback of a replaced timer does not look at its identity
StaleCallbackCounts(u) ==
    /\ stale[u] /\ ~owesPoke[u]
    /\ stale' = [stale EXCEPT ![u] = FALSE]
    /\ setConvergedChanged(u, TRUE)
    /\ UNCHANGED <<now, regVars, running, timer, deadline, active, pokeChan,
                   loopVars, holdVars, ctlVars>>

\* "superseded": the timer was replaced or stopped before its callback ran
StaleCallback(u) ==
    /\ stale[u] /\ ~owesPoke[u]
    /\ stale' = [stale EXCEPT ![u] = FALSE]
    /\ UNCHANGED <<now, regVars, running, isConverged, timer, deadline, owesPoke,
                   active, pokeChan, loopVars, holdVars, ctlVars>>

\* the poke after a changed flag; it never blocks
poke(u) ==
    /\ owesPoke[u]
    /\ owesPoke' = [owesPoke EXCEPT ![u] = FALSE]
    /\ pokeChan' = TRUE
    /\ UNCHANGED <<now, regVars, running, isConverged, timer, stale, deadline,
                   active, loopVars, holdVars, ctlVars>>

-----------------------------------------------------------------------------
(* The main loop                                                           *)

\* recalculate does nothing when it is disabled or paused
Skips == ~Holds \/ paused

recalculateSkips ==
    /\ pc = "top" /\ Skips
    /\ pc' = "arm"
    /\ UNCHANGED <<now, regVars, uidVars, pokeChan, at, unread, snapshot,
                   converged, lastStatusCount, holdVars, ctlVars>>

recalculate ==
    /\ pc = "top" /\ ~Skips
    /\ pc' = "snapshot"
    /\ at' = now
    /\ unread' = status /\ snapshot' = TRUE
    /\ UNCHANGED <<now, regVars, uidVars, pokeChan, converged, lastStatusCount,
                   holdVars, ctlVars>>

\* convergedSnapshot reads one flag; the first that is not set ends it
convergedSnapshot ==
    /\ pc = "snapshot" /\ unread # {}
    /\ \E u \in unread :
         IF isConverged[u] THEN unread' = unread \ {u} /\ UNCHANGED snapshot
                           ELSE unread' = {} /\ snapshot' = FALSE
    /\ UNCHANGED <<now, regVars, uidVars, pokeChan, pc, at, converged,
                   lastStatusCount, holdVars, ctlVars>>

\* the rest of recalculate, up to the state functions
decide ==
    /\ pc = "snapshot" /\ unread = {}
    /\ lastStatusCount' = Cardinality(status)
    /\ holdUntil' = IF status = {} /\ lastStatusCount # 0 THEN at + Duration
                                                          ELSE holdUntil
    /\ LET nextState == snapshot /\ ~(holdUntil' # NoHold /\ at < holdUntil')
       IN  /\ converged' = nextState
           /\ pc' = IF nextState = converged THEN "arm" ELSE "statefns"
    /\ UNCHANGED <<now, regVars, uidVars, pokeChan, at, unread, snapshot,
                   holdTimer, ctlVars>>

\* the state functions take any time; an error ends Run
runStateFns ==
    /\ pc = "statefns"
    /\ pc' \in {"arm", "returning"}
    /\ ctxDone' = (ctxDone \/ pc' = "returning")
    /\ UNCHANGED <<now, regVars, uidVars, pokeChan, at, unread, snapshot,
                   converged, lastStatusCount, holdVars, paused, control>>

\* the hold timer is armed for the time that is left now, if any is
armHold ==
    /\ pc = "arm"
    /\ pc' = "select"
    /\ holdTimer' = IF ~paused /\ Holds /\ holdUntil # NoHold /\ now < holdUntil
                      THEN holdUntil ELSE NoHold
    /\ UNCHANGED <<now, regVars, uidVars, pokeChan, at, unread, snapshot,
                   converged, lastStatusCount, holdUntil, ctlVars>>

selectPoke ==
    /\ pc = "select" /\ pokeChan
    /\ pc' = "top" /\ pokeChan' = FALSE
    /\ UNCHANGED <<now, regVars, uidVars, at, unread, snapshot, converged,
                   lastStatusCount, holdVars, ctlVars>>

selectHold ==
    /\ pc = "select" /\ holdTimer # NoHold /\ now >= holdTimer
    /\ pc' = "top"
    /\ UNCHANGED <<now, regVars, uidVars, pokeChan, at, unread, snapshot,
                   converged, lastStatusCount, holdVars, ctlVars>>

\* the hold after a control message
holdAfter(pause) == IF pause \/ converged \/ ~Holds THEN NoHold ELSE now + Duration

selectControl ==
    /\ pc = "select" /\ control \in {"pausing", "resuming"}
    /\ LET pause == control = "pausing"
       IN  /\ pause # paused        \* otherwise it panics; the callers alternate
           /\ paused' = pause
           /\ holdUntil' = holdAfter(pause)
           /\ control' = IF pause THEN "paused" ELSE "resumed"
    /\ pc' = "top"
    /\ UNCHANGED <<now, regVars, uidVars, pokeChan, at, unread, snapshot,
                   converged, lastStatusCount, holdTimer, ctxDone>>

\* mutant: the select has no case for the context
selectDoneMissing == FALSE /\ UNCHANGED vars

selectDone ==
    /\ pc = "select" /\ ctxDone
    /\ pc' = "returning"
    /\ UNCHANGED <<now, regVars, uidVars, pokeChan, at, unread, snapshot,
                   converged, lastStatusCount, holdVars, ctlVars>>

\* the first deferred call of Run runs last: every UID must be gone
Return ==
    /\ pc = "returning" /\ status = {}
    /\ pc' = "returned"
    /\ UNCHANGED <<now, regVars, uidVars, pokeChan, at, unread, snapshot,
                   converged, lastStatusCount, holdVars, ctlVars>>

-----------------------------------------------------------------------------
(* The callers: lib/main.go alternates Pause and Resume                    *)

Pause ==
    /\ control = "resumed"
    /\ control' = "pausing"
    /\ UNCHANGED <<now, regVars, uidVars, pokeChan, loopVars, holdVars, paused,
                   ctxDone>>

Resume ==
    /\ control = "paused"
    /\ control' = "resuming"
    /\ UNCHANGED <<now, regVars, uidVars, pokeChan, loopVars, holdVars, paused,
                   ctxDone>>

\* mutant: the calls do not look at the context
helperPauseResumeStays == FALSE /\ UNCHANGED vars

\* both calls return when the coordinator is gone
helperPauseResumeDone ==
    /\ control \in {"pausing", "resuming"} /\ ctxDone
    /\ control' = IF control = "pausing" THEN "paused" ELSE "resumed"
    /\ UNCHANGED <<now, regVars, uidVars, pokeChan, loopVars, holdVars, paused,
                   ctxDone>>

\* lib/main.go cancels the context after the last Pause or Resume
Shutdown ==
    /\ control \in {"resumed", "paused"}
    /\ control' = "ended" /\ ctxDone' = TRUE
    /\ UNCHANGED <<now, regVars, uidVars, pokeChan, loopVars, holdVars, paused>>

UIDNext(u) ==
    Register(u) \/ Unregister(u) \/ StartTimer(u) \/ StopTimer(u) \/ ResetTimer(u)
        \/ Fire(u) \/ Callback(u) \/ StaleCallback(u) \/ poke(u)

LoopNext ==
    recalculateSkips \/ recalculate \/ convergedSnapshot \/ decide \/ runStateFns
        \/ armHold \/ selectPoke \/ selectHold \/ selectControl \/ selectDone
        \/ Return

CallerNext == Pause \/ Resume \/ helperPauseResumeDone \/ Shutdown

\* nothing is left to do
Terminated == pc = "returned" /\ UNCHANGED vars

Next == Tick \/ LoopNext \/ CallerNext \/ (\E u \in UID : UIDNext(u)) \/ Terminated

Spec == Init /\ [][Next]_vars

(***************************************************************************)
(* The main loop runs; a control message that can be taken again and again *)
(* is taken in the end (Go selects at random among the ready cases). Once  *)
(* lib/main.go cancels the context it gave to Run, its engine has ended,   *)
(* so every UID is unregistered. Before that nothing makes a UID go, not   *)
(* even a failed state function, which cancels Run's own context only.     *)
(***************************************************************************)
Fairness ==
    /\ WF_vars(LoopNext) /\ SF_vars(selectControl) /\ SF_vars(selectDone)
    /\ WF_vars(helperPauseResumeDone)
    /\ WF_vars(\E u \in UID : poke(u))
    /\ SF_vars(control = "ended" /\ \E u \in UID : Unregister(u))

FairSpec == Spec /\ Fairness

(***************************************************************************)
(* Properties                                                              *)
(***************************************************************************)

UIDTypeOK ==
    /\ status \subseteq UID /\ spent \subseteq UID /\ status \cap spent = {}
    /\ running \in [UID -> BOOLEAN] /\ isConverged \in [UID -> BOOLEAN]
    /\ timer \in [UID -> {"nil", "armed", "fired"}] /\ stale \in [UID -> BOOLEAN]
    /\ deadline \in [UID -> Int] /\ active \in [UID -> Int]
    /\ owesPoke \in [UID -> BOOLEAN]
LoopTypeOK ==
    /\ pc \in {"top", "snapshot", "statefns", "arm", "select", "returning",
               "returned"}
    /\ at \in Int /\ unread \subseteq UID /\ snapshot \in BOOLEAN
    /\ converged \in BOOLEAN /\ pokeChan \in BOOLEAN
ControlTypeOK ==
    /\ now \in Int /\ holdUntil \in Int /\ holdTimer \in Int
    /\ paused \in BOOLEAN /\ ctxDone \in BOOLEAN
    /\ control \in {"resumed", "pausing", "paused", "resuming", "ended"}

\* Type invariant; a UID that was unregistered never comes back, and no timer of
\* it is left armed.
TypeOK == UIDTypeOK /\ LoopTypeOK /\ ControlTypeOK
            /\ \A u \in UID \ status : ~running[u] /\ timer[u] = "nil"

\* A UID counts as converged only if its timer is running and nothing restarted
\* it for the whole duration: no callback of a timer that was stopped or reset
\* in the meantime may set the flag.
ConvergedUIDIsQuiet ==
    \A u \in UID : isConverged[u] => running[u] /\ now >= active[u] + Duration

\* the main loop is blocked and no wakeup is on its way
Blocked ==
    /\ pc = "select" /\ ~pokeChan /\ ~paused /\ Holds
    /\ \A u \in UID : ~owesPoke[u]
\* the last decision was that it is too early
HeldBack == holdUntil # NoHold /\ at < holdUntil

\* No change of a UID is lost: when the main loop blocks and no poke is on its
\* way, what it reports is what the UIDs say, although it read their flags one
\* by one while they changed, and although the buffer holds a single poke.
NoLostPoke == Blocked => (converged <=> AllConverged /\ ~HeldBack)

\* Pause: "While we are paused, no converger action will occur." From the return
\* of Pause to the next Resume no state function runs.
PausedIsSilent == control \in {"paused", "resuming"} => pc \notin {"snapshot", "statefns"}

\* Pause returns, whatever the UIDs do, also when a state function has failed and
\* the main loop is gone.
PauseReturns == control = "pausing" ~> control = "paused"

\* Once lib/main.go cancels the context, Run returns, wherever its main loop was
\* and whether or not a state function failed before: the UIDs that are left
\* unregister, and nothing else holds it up.
RunReturns == control = "ended" ~> pc = "returned"

(***************************************************************************)
(* What the documentation and comments say, and the code does not do       *)
(***************************************************************************)

\* docs/documentation.md: "Consider the machine converged if idle for
\* approximately this many seconds." When everything is idle, a blocked main loop
\* that does not say so yet has a timer that will wake it.
NoLostHold == Blocked /\ AllConverged /\ ~converged => holdTimer # NoHold

\* lib/main.go calls cancelCause with "converger run failed" once Run returns the
\* error of a state function. Run first waits for every UID to unregister, and they
\* only do so once cancelCause was called.
FailureReturns == pc = "returning" ~> pc = "returned"
=============================================================================

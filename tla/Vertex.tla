------------------------------- MODULE Vertex -------------------------------
(* What the engine and its neighbours may rely on of a vertex, whatever the  *)
(* goroutines of its Worker do (the comments on State.Pause, Resume and      *)
(* setDirty in engine/graph/state.go, on Engine.Resume and SoftInterrupt in  *)
(* engine/graph/engine.go, and in Process in engine/graph/actions.go).       *)
(* Worker implements it.                                                     *)
CONSTANTS
    Noop,       \* CheckApply only checks
    Hidden      \* CheckApply is never called

VARIABLES
    held,       \* by the engine: "no", "yes" from the return of Pause to the
                \* call of Resume, "end" while it is removed, then "gone"
    work,       \* "idle", or how far Process is
    clean,      \* Process is known to have nothing to do
    due,        \* a neighbour asks for a refresh
    seen,       \* ... and the running Process knows of it
    dead,       \* Process will never run again
    stopped     \* the user does not want to wait for any more work

vars == <<held, work, clean, due, seen, dead, stopped>>
about == <<clean, due, seen>>

Init ==
    /\ held = "yes" /\ work = "idle"
    /\ clean = FALSE /\ due = FALSE /\ seen = FALSE
    /\ dead = FALSE /\ stopped = FALSE

\* Pause returns when Process does not run
Pause ==
    /\ held = "no" /\ work = "idle"
    /\ held' = "yes"
    /\ UNCHANGED <<work, about, dead, stopped>>

Resume ==
    /\ held = "yes" /\ held' = "no"
    /\ UNCHANGED <<work, about, dead, stopped>>

\* only a vertex that is paused is removed
Remove ==
    /\ held = "yes" /\ held' = "end"
    /\ UNCHANGED <<work, about, dead, stopped>>

Gone ==
    /\ held = "end" /\ dead
    /\ held' = "gone"
    /\ UNCHANGED <<work, about, dead, stopped>>

Begin ==
    /\ held = "no" /\ work = "idle" /\ ~dead
    /\ work' = "process"
    /\ UNCHANGED <<held, about, dead, stopped>>

\* no Process does any work once it can know that nobody waits for it
Enter ==
    /\ work = "process"
    /\ work' = IF stopped THEN "return" ELSE "receive"
    /\ UNCHANGED <<held, about, dead, stopped>>

\* CheckApply is called if there is something to do: the vertex was dirty, has
\* just received a value, or has been told to refresh
Apply ==
    /\ work = "receive" /\ work' = "checkapply"
    /\ clean' \in {clean, FALSE} /\ seen' = due
    /\ ~clean' \/ due
    /\ ~Hidden /\ ~(Noop /\ due)
    /\ UNCHANGED <<held, due, dead, stopped>>

\* ... and is left out only if there is nothing to do, or it must not do it
Skip ==
    /\ work = "receive" /\ work' = "store"
    /\ clean' \in {clean, FALSE} /\ seen' = due
    /\ (clean' /\ ~due) \/ Hidden \/ (Noop /\ due)
    /\ UNCHANGED <<held, due, dead, stopped>>

Applied ==
    /\ work = "checkapply" /\ work' = "store"
    /\ UNCHANGED <<held, about, dead, stopped>>

\* only a Process that went well says that there is nothing left to do
Record ==
    /\ work = "store" /\ work' = "return"
    /\ clean' = (clean \/ ~Noop)
    /\ due' = (due /\ (Noop \/ ~seen)) /\ seen' = FALSE
    /\ UNCHANGED <<held, dead, stopped>>

\* one that did not leaves what there was to do, or adds to it
Fail ==
    /\ work \in {"receive", "checkapply", "store"} /\ work' = "return"
    /\ clean' \in {clean, clean /\ work # "receive"} /\ seen' = FALSE
    /\ UNCHANGED <<held, due, dead, stopped>>

\* Process ends, for good if it has failed too often
Finish ==
    /\ work = "return" /\ work' = "idle"
    /\ dead' \in {dead, TRUE}
    /\ UNCHANGED <<held, about, stopped>>

\* there is something to do: others never say so while Process runs, which would
\* unsay it
Mark ==
    /\ work = "idle" /\ clean' = FALSE
    /\ UNCHANGED <<held, work, due, seen, dead, stopped>>

\* a refresh may be asked for at any time
Tell ==
    /\ due' = TRUE
    /\ UNCHANGED <<held, work, clean, seen, dead, stopped>>

Die ==
    /\ work = "idle" /\ dead' = TRUE
    /\ UNCHANGED <<held, work, about, stopped>>

Stop ==
    /\ stopped' = TRUE
    /\ UNCHANGED <<held, work, about, dead>>

Next ==
    \/ Pause \/ Resume \/ Remove \/ Gone
    \/ Begin \/ Enter \/ Apply \/ Skip \/ Applied \/ Record \/ Fail \/ Finish
    \/ Mark \/ Tell \/ Die \/ Stop

Spec == Init /\ [][Next]_vars
=============================================================================

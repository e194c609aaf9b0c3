-------------------------- MODULE ConvergerProofs --------------------------
(***************************************************************************)
(* The safety properties of Converger, for every set of UIDs and every     *)
(* duration, the disabled coordinator included.                            *)
(***************************************************************************)
EXTENDS Converger, TLAPS

\* A UID that is not registered has no timer and is not running
Forgotten == \A u \in UID \ status : ~running[u] /\ timer[u] = "nil"

\* A timer that is armed, or whose callback is under way and not superseded,
\* belongs to the last activity
Timers ==
    \A u \in UID : timer[u] # "nil" =>
        /\ running[u] /\ Holds /\ deadline[u] = active[u] + Duration
        /\ timer[u] = "fired" => now >= deadline[u]

\* What a reader who saw a flag set, or not set, may still rely on: either it
\* has not changed, or the poke is on its way
Settled(u) == isConverged[u] \/ owesPoke[u]
Unsettled(u) == ~isConverged[u] \/ owesPoke[u]

\* The flags read so far, while they change behind the reader
Reading ==
    pc = "snapshot" =>
        /\ Holds /\ ~paused /\ unread \subseteq status
        /\ snapshot /\ ~pokeChan => \A u \in status \ unread : Settled(u)
        /\ ~snapshot => /\ unread = {}
                        /\ pokeChan \/ \E u \in status : Unsettled(u)

\* The decision that was made, until a poke or a control message arrives
Decided ==
    pc \in {"statefns", "arm", "select"} /\ ~paused /\ Holds /\ ~pokeChan =>
        /\ converged => ~HeldBack /\ \A u \in status : Settled(u)
        /\ ~converged => HeldBack \/ \E u \in status : Unsettled(u)

\* What Pause and Resume may rely on; the context is cancelled under them only
\* when the main loop is gone
Control ==
    /\ control \in {"paused", "resuming"} => paused \/ pc \in {"returning", "returned"}
    /\ control \in {"resumed", "pausing"} => ~paused \/ pc \in {"returning", "returned"}
    /\ ctxDone /\ control # "ended" => pc \in {"returning", "returned"}
    /\ pc \in {"snapshot", "statefns"} => ~paused

IInv ==
    /\ UIDTypeOK /\ LoopTypeOK /\ ControlTypeOK /\ Forgotten /\ Timers
    /\ ConvergedUIDIsQuiet /\ Reading /\ Decided /\ Control

-----------------------------------------------------------------------------
USE DEF vars, uidVars, regVars, loopVars, holdVars, ctlVars

LEMMA InitInv == Init => IInv
<1> SUFFICES ASSUME Init PROVE IInv
  OBVIOUS
<1>1. UIDTypeOK
  BY DEF Init, UIDTypeOK
<1>2. LoopTypeOK /\ ControlTypeOK
  <2>1. /\ at \in Int /\ unread \subseteq UID /\ now \in Int /\ holdUntil \in Int
        /\ holdTimer \in Int
    BY DurationAssumption DEF Init, NoHold
  <2>2. /\ snapshot \in BOOLEAN /\ converged \in BOOLEAN
        /\ pokeChan \in BOOLEAN /\ paused \in BOOLEAN /\ ctxDone \in BOOLEAN
    BY Zenon DEF Init
  <2>3. pc = "top" /\ control = "resumed"
    BY DEF Init
  <2>4. QED
    BY <2>1, <2>2, <2>3 DEF LoopTypeOK, ControlTypeOK
<1>3. Control
  BY DEF Init, Control
<1>4. Forgotten /\ Timers /\ ConvergedUIDIsQuiet
  BY DEF Init, Forgotten, Timers, ConvergedUIDIsQuiet
<1>5. Reading /\ Decided
  BY DEF Init, Reading, Decided
<1>6. QED
  BY <1>1, <1>2, <1>3, <1>4, <1>5 DEF IInv

\* The steps of a UID and of its timer preserve the invariant
LEMMA UIDStep == \A u \in UID : IInv /\ UIDNext(u) => IInv'
<1> SUFFICES ASSUME NEW u \in UID, IInv, UIDNext(u) PROVE IInv'
  OBVIOUS
<1> USE DurationAssumption, TimeAssumption DEF Holds, NoHold
<1>1. CASE Register(u)
  <2>1. UIDTypeOK'
    BY <1>1 DEF Register, IInv, UIDTypeOK, ControlTypeOK
  <2>2. LoopTypeOK'
    BY <1>1 DEF Register, IInv, LoopTypeOK
  <2>3. ControlTypeOK'
    BY <1>1 DEF Register, IInv, ControlTypeOK
  <2>4. Forgotten'
    BY <1>1 DEF Register, IInv, Forgotten, UIDTypeOK
  <2>5. Timers'
    BY <1>1 DEF Register, IInv, Timers, Forgotten, UIDTypeOK, ControlTypeOK
  <2>6. ConvergedUIDIsQuiet'
    BY <1>1
    DEF Register, IInv, ConvergedUIDIsQuiet, Timers, UIDTypeOK, ControlTypeOK,
        Forgotten
  <2>7. Reading'
    BY <1>1
    DEF Register, IInv, Reading, UIDTypeOK, LoopTypeOK, ControlTypeOK,
        Control, Forgotten, ConvergedUIDIsQuiet, Settled, Unsettled, HeldBack
  <2>8. Decided'
    BY <1>1
    DEF Register, IInv, Decided, UIDTypeOK, LoopTypeOK, ControlTypeOK,
        Reading, Forgotten, Control, ConvergedUIDIsQuiet, Settled, Unsettled,
        HeldBack
  <2>9. Control'
    BY <1>1 DEF Register, IInv, Control, LoopTypeOK, ControlTypeOK
  <2>10. QED
    BY <2>1, <2>2, <2>3, <2>4, <2>5, <2>6, <2>7, <2>8, <2>9 DEF IInv
<1>2. CASE Unregister(u)
  <2>1. UIDTypeOK'
    BY <1>2 DEF Unregister, IInv, UIDTypeOK, ControlTypeOK
  <2>2. LoopTypeOK'
    BY <1>2 DEF Unregister, IInv, LoopTypeOK
  <2>3. ControlTypeOK'
    BY <1>2 DEF Unregister, IInv, ControlTypeOK
  <2>4. Forgotten'
    BY <1>2 DEF Unregister, IInv, Forgotten, UIDTypeOK
  <2>5. Timers'
    BY <1>2 DEF Unregister, IInv, Timers, Forgotten, UIDTypeOK, ControlTypeOK
  <2>6. ConvergedUIDIsQuiet'
    BY <1>2
    DEF Unregister, IInv, ConvergedUIDIsQuiet, Timers, UIDTypeOK,
        ControlTypeOK, Forgotten
  <2>7. Reading'
    BY <1>2
    DEF Unregister, IInv, Reading, UIDTypeOK, LoopTypeOK, ControlTypeOK,
        Control, Forgotten, ConvergedUIDIsQuiet, Settled, Unsettled, HeldBack
  <2>8. Decided'
    BY <1>2
    DEF Unregister, IInv, Decided, UIDTypeOK, LoopTypeOK, ControlTypeOK,
        Reading, Forgotten, Control, ConvergedUIDIsQuiet, Settled, Unsettled,
        HeldBack
  <2>9. Control'
    BY <1>2 DEF Unregister, IInv, Control, LoopTypeOK, ControlTypeOK
  <2>10. QED
    BY <2>1, <2>2, <2>3, <2>4, <2>5, <2>6, <2>7, <2>8, <2>9 DEF IInv
<1>3. CASE StartTimer(u)
  <2>1. UIDTypeOK'
    BY <1>3
    DEF StartTimer, setConvergedChanged, PokesIfChanged, resetTimer,
        stopTimer, IInv, UIDTypeOK, ControlTypeOK
  <2>2. LoopTypeOK'
    BY <1>3
    DEF StartTimer, setConvergedChanged, PokesIfChanged, resetTimer,
        stopTimer, IInv, LoopTypeOK
  <2>3. ControlTypeOK'
    BY <1>3
    DEF StartTimer, setConvergedChanged, PokesIfChanged, resetTimer,
        stopTimer, IInv, ControlTypeOK
  <2>4. Forgotten'
    BY <1>3
    DEF StartTimer, setConvergedChanged, PokesIfChanged, resetTimer,
        stopTimer, IInv, Forgotten, UIDTypeOK
  <2>5. Timers'
    BY <1>3
    DEF StartTimer, setConvergedChanged, PokesIfChanged, resetTimer,
        stopTimer, IInv, Timers, Forgotten, UIDTypeOK, ControlTypeOK
  <2>6. ConvergedUIDIsQuiet'
    BY <1>3
    DEF StartTimer, setConvergedChanged, PokesIfChanged, resetTimer,
        stopTimer, IInv, ConvergedUIDIsQuiet, Timers, UIDTypeOK,
        ControlTypeOK, Forgotten
  <2>7. Reading'
    BY <1>3
    DEF StartTimer, setConvergedChanged, PokesIfChanged, resetTimer,
        stopTimer, IInv, Reading, UIDTypeOK, LoopTypeOK, ControlTypeOK,
        Control, Forgotten, ConvergedUIDIsQuiet, Settled, Unsettled, HeldBack
  <2>8. Decided'
    BY <1>3
    DEF StartTimer, setConvergedChanged, PokesIfChanged, resetTimer,
        stopTimer, IInv, Decided, UIDTypeOK, LoopTypeOK, ControlTypeOK,
        Reading, Forgotten, Control, ConvergedUIDIsQuiet, Settled, Unsettled,
        HeldBack
  <2>9. Control'
    BY <1>3
    DEF StartTimer, setConvergedChanged, PokesIfChanged, resetTimer,
        stopTimer, IInv, Control, LoopTypeOK, ControlTypeOK
  <2>10. QED
    BY <2>1, <2>2, <2>3, <2>4, <2>5, <2>6, <2>7, <2>8, <2>9 DEF IInv
<1>4. CASE StopTimer(u)
  <2>1. UIDTypeOK'
    BY <1>4
    DEF StopTimer, setConvergedChanged, PokesIfChanged, stopTimer, IInv,
        UIDTypeOK, ControlTypeOK
  <2>2. LoopTypeOK'
    BY <1>4
    DEF StopTimer, setConvergedChanged, PokesIfChanged, stopTimer, IInv,
        LoopTypeOK
  <2>3. ControlTypeOK'
    BY <1>4
    DEF StopTimer, setConvergedChanged, PokesIfChanged, stopTimer, IInv,
        ControlTypeOK
  <2>4. Forgotten'
    BY <1>4
    DEF StopTimer, setConvergedChanged, PokesIfChanged, stopTimer, IInv,
        Forgotten, UIDTypeOK
  <2>5. Timers'
    BY <1>4
    DEF StopTimer, setConvergedChanged, PokesIfChanged, stopTimer, IInv,
        Timers, Forgotten, UIDTypeOK, ControlTypeOK
  <2>6. ConvergedUIDIsQuiet'
    BY <1>4
    DEF StopTimer, setConvergedChanged, PokesIfChanged, stopTimer, IInv,
        ConvergedUIDIsQuiet, Timers, UIDTypeOK, ControlTypeOK, Forgotten
  <2>7. Reading'
    BY <1>4
    DEF StopTimer, setConvergedChanged, PokesIfChanged, stopTimer, IInv,
        Reading, UIDTypeOK, LoopTypeOK, ControlTypeOK, Control, Forgotten,
        ConvergedUIDIsQuiet, Settled, Unsettled, HeldBack
  <2>8. Decided'
    BY <1>4
    DEF StopTimer, setConvergedChanged, PokesIfChanged, stopTimer, IInv,
        Decided, UIDTypeOK, LoopTypeOK, ControlTypeOK, Reading, Forgotten,
        Control, ConvergedUIDIsQuiet, Settled, Unsettled, HeldBack
  <2>9. Control'
    BY <1>4
    DEF StopTimer, setConvergedChanged, PokesIfChanged, stopTimer, IInv,
        Control, LoopTypeOK, ControlTypeOK
  <2>10. QED
    BY <2>1, <2>2, <2>3, <2>4, <2>5, <2>6, <2>7, <2>8, <2>9 DEF IInv
<1>5. CASE ResetTimer(u)
  <2>1. UIDTypeOK'
    BY <1>5
    DEF ResetTimer, setConvergedChanged, PokesIfChanged, resetTimer,
        stopTimer, IInv, UIDTypeOK, ControlTypeOK
  <2>2. LoopTypeOK'
    BY <1>5
    DEF ResetTimer, setConvergedChanged, PokesIfChanged, resetTimer,
        stopTimer, IInv, LoopTypeOK
  <2>3. ControlTypeOK'
    BY <1>5
    DEF ResetTimer, setConvergedChanged, PokesIfChanged, resetTimer,
        stopTimer, IInv, ControlTypeOK
  <2>4. Forgotten'
    BY <1>5
    DEF ResetTimer, setConvergedChanged, PokesIfChanged, resetTimer,
        stopTimer, IInv, Forgotten, UIDTypeOK
  <2>5. Timers'
    BY <1>5
    DEF ResetTimer, setConvergedChanged, PokesIfChanged, resetTimer,
        stopTimer, IInv, Timers, Forgotten, UIDTypeOK, ControlTypeOK
  <2>6. ConvergedUIDIsQuiet'
    BY <1>5
    DEF ResetTimer, setConvergedChanged, PokesIfChanged, resetTimer,
        stopTimer, IInv, ConvergedUIDIsQuiet, Timers, UIDTypeOK,
        ControlTypeOK, Forgotten
  <2>7. Reading'
    BY <1>5
    DEF ResetTimer, setConvergedChanged, PokesIfChanged, resetTimer,
        stopTimer, IInv, Reading, UIDTypeOK, LoopTypeOK, ControlTypeOK,
        Control, Forgotten, ConvergedUIDIsQuiet, Settled, Unsettled, HeldBack
  <2>8. Decided'
    BY <1>5
    DEF ResetTimer, setConvergedChanged, PokesIfChanged, resetTimer,
        stopTimer, IInv, Decided, UIDTypeOK, LoopTypeOK, ControlTypeOK,
        Reading, Forgotten, Control, ConvergedUIDIsQuiet, Settled, Unsettled,
        HeldBack
  <2>9. Control'
    BY <1>5
    DEF ResetTimer, setConvergedChanged, PokesIfChanged, resetTimer,
        stopTimer, IInv, Control, LoopTypeOK, ControlTypeOK
  <2>10. QED
    BY <2>1, <2>2, <2>3, <2>4, <2>5, <2>6, <2>7, <2>8, <2>9 DEF IInv
<1>6. CASE Fire(u)
  <2>1. UIDTypeOK'
    BY <1>6 DEF Fire, IInv, UIDTypeOK, ControlTypeOK
  <2>2. LoopTypeOK'
    BY <1>6 DEF Fire, IInv, LoopTypeOK
  <2>3. ControlTypeOK'
    BY <1>6 DEF Fire, IInv, ControlTypeOK
  <2>4. Forgotten'
    BY <1>6 DEF Fire, IInv, Forgotten, UIDTypeOK
  <2>5. Timers'
    BY <1>6 DEF Fire, IInv, Timers, Forgotten, UIDTypeOK, ControlTypeOK
  <2>6. ConvergedUIDIsQuiet'
    BY <1>6
    DEF Fire, IInv, ConvergedUIDIsQuiet, Timers, UIDTypeOK, ControlTypeOK,
        Forgotten
  <2>7. Reading'
    BY <1>6
    DEF Fire, IInv, Reading, UIDTypeOK, LoopTypeOK, ControlTypeOK, Control,
        Forgotten, ConvergedUIDIsQuiet, Settled, Unsettled, HeldBack
  <2>8. Decided'
    BY <1>6
    DEF Fire, IInv, Decided, UIDTypeOK, LoopTypeOK, ControlTypeOK, Reading,
        Forgotten, Control, ConvergedUIDIsQuiet, Settled, Unsettled, HeldBack
  <2>9. Control'
    BY <1>6 DEF Fire, IInv, Control, LoopTypeOK, ControlTypeOK
  <2>10. QED
    BY <2>1, <2>2, <2>3, <2>4, <2>5, <2>6, <2>7, <2>8, <2>9 DEF IInv
<1>7. CASE Callback(u)
  <2>1. UIDTypeOK'
    BY <1>7
    DEF Callback, setConvergedChanged, PokesIfChanged, IInv, UIDTypeOK,
        ControlTypeOK
  <2>2. LoopTypeOK'
    BY <1>7
    DEF Callback, setConvergedChanged, PokesIfChanged, AllConverged, IInv,
        LoopTypeOK
  <2>3. ControlTypeOK'
    BY <1>7
    DEF Callback, setConvergedChanged, PokesIfChanged, IInv, ControlTypeOK
  <2>4. Forgotten'
    BY <1>7
    DEF Callback, setConvergedChanged, PokesIfChanged, IInv, Forgotten,
        UIDTypeOK
  <2>5. Timers'
    BY <1>7
    DEF Callback, setConvergedChanged, PokesIfChanged, IInv, Timers,
        Forgotten, UIDTypeOK, ControlTypeOK
  <2>6. ConvergedUIDIsQuiet'
    BY <1>7
    DEF Callback, setConvergedChanged, PokesIfChanged, IInv,
        ConvergedUIDIsQuiet, Timers, UIDTypeOK, ControlTypeOK, Forgotten
  <2>7. Reading'
    BY <1>7
    DEF Callback, setConvergedChanged, PokesIfChanged, IInv, Reading,
        UIDTypeOK, LoopTypeOK, ControlTypeOK, Control, Forgotten,
        ConvergedUIDIsQuiet, Settled, Unsettled, HeldBack
  <2>8. Decided'
    BY <1>7
    DEF Callback, setConvergedChanged, PokesIfChanged, IInv, Decided,
        UIDTypeOK, LoopTypeOK, ControlTypeOK, Reading, Forgotten, Control,
        ConvergedUIDIsQuiet, Settled, Unsettled, HeldBack
  <2>9. Control'
    BY <1>7
    DEF Callback, setConvergedChanged, PokesIfChanged, IInv, Control,
        LoopTypeOK, ControlTypeOK
  <2>10. QED
    BY <2>1, <2>2, <2>3, <2>4, <2>5, <2>6, <2>7, <2>8, <2>9 DEF IInv
<1>8. CASE StaleCallback(u)
  <2>1. UIDTypeOK'
    BY <1>8 DEF StaleCallback, IInv, UIDTypeOK, ControlTypeOK
  <2>2. LoopTypeOK'
    BY <1>8 DEF StaleCallback, IInv, LoopTypeOK
  <2>3. ControlTypeOK'
    BY <1>8 DEF StaleCallback, IInv, ControlTypeOK
  <2>4. Forgotten'
    BY <1>8 DEF StaleCallback, IInv, Forgotten, UIDTypeOK
  <2>5. Timers'
    BY <1>8
    DEF StaleCallback, IInv, Timers, Forgotten, UIDTypeOK, ControlTypeOK
  <2>6. ConvergedUIDIsQuiet'
    BY <1>8
    DEF StaleCallback, IInv, ConvergedUIDIsQuiet, Timers, UIDTypeOK,
        ControlTypeOK, Forgotten
  <2>7. Reading'
    BY <1>8
    DEF StaleCallback, IInv, Reading, UIDTypeOK, LoopTypeOK, ControlTypeOK,
        Control, Forgotten, ConvergedUIDIsQuiet, Settled, Unsettled, HeldBack
  <2>8. Decided'
    BY <1>8
    DEF StaleCallback, IInv, Decided, UIDTypeOK, LoopTypeOK, ControlTypeOK,
        Reading, Forgotten, Control, ConvergedUIDIsQuiet, Settled, Unsettled,
        HeldBack
  <2>9. Control'
    BY <1>8 DEF StaleCallback, IInv, Control, LoopTypeOK, ControlTypeOK
  <2>10. QED
    BY <2>1, <2>2, <2>3, <2>4, <2>5, <2>6, <2>7, <2>8, <2>9 DEF IInv
<1>9. CASE poke(u)
  <2>1. UIDTypeOK'
    BY <1>9 DEF poke, IInv, UIDTypeOK, ControlTypeOK
  <2>2. LoopTypeOK'
    BY <1>9 DEF poke, IInv, LoopTypeOK
  <2>3. ControlTypeOK'
    BY <1>9 DEF poke, IInv, ControlTypeOK
  <2>4. Forgotten'
    BY <1>9 DEF poke, IInv, Forgotten, UIDTypeOK
  <2>5. Timers'
    BY <1>9 DEF poke, IInv, Timers, Forgotten, UIDTypeOK, ControlTypeOK
  <2>6. ConvergedUIDIsQuiet'
    BY <1>9
    DEF poke, IInv, ConvergedUIDIsQuiet, Timers, UIDTypeOK, ControlTypeOK,
        Forgotten
  <2>7. Reading'
    BY <1>9
    DEF poke, IInv, Reading, UIDTypeOK, LoopTypeOK, ControlTypeOK, Control,
        Forgotten, ConvergedUIDIsQuiet, Settled, Unsettled, HeldBack
  <2>8. Decided'
    BY <1>9
    DEF poke, IInv, Decided, UIDTypeOK, LoopTypeOK, ControlTypeOK, Reading,
        Forgotten, Control, ConvergedUIDIsQuiet, Settled, Unsettled, HeldBack
  <2>9. Control'
    BY <1>9 DEF poke, IInv, Control, LoopTypeOK, ControlTypeOK
  <2>10. QED
    BY <2>1, <2>2, <2>3, <2>4, <2>5, <2>6, <2>7, <2>8, <2>9 DEF IInv
<1>10. QED
  BY <1>1, <1>2, <1>3, <1>4, <1>5, <1>6, <1>7, <1>8, <1>9 DEF UIDNext

\* The steps of the main loop preserve the invariant
LEMMA LoopStep == IInv /\ LoopNext => IInv'
<1> SUFFICES ASSUME IInv, LoopNext PROVE IInv'
  OBVIOUS
<1> USE DurationAssumption, TimeAssumption DEF Holds, NoHold
<1>1. CASE recalculateSkips
  <2>1. UIDTypeOK'
    BY <1>1 DEF recalculateSkips, Skips, IInv, UIDTypeOK, ControlTypeOK
  <2>2. LoopTypeOK'
    BY <1>1 DEF recalculateSkips, Skips, IInv, LoopTypeOK
  <2>3. ControlTypeOK'
    BY <1>1 DEF recalculateSkips, Skips, IInv, ControlTypeOK
  <2>4. Forgotten'
    BY <1>1 DEF recalculateSkips, Skips, IInv, Forgotten, UIDTypeOK
  <2>5. Timers'
    BY <1>1
    DEF recalculateSkips, Skips, IInv, Timers, Forgotten, UIDTypeOK,
        ControlTypeOK
  <2>6. ConvergedUIDIsQuiet'
    BY <1>1
    DEF recalculateSkips, Skips, IInv, ConvergedUIDIsQuiet, Timers, UIDTypeOK,
        ControlTypeOK, Forgotten
  <2>7. Reading'
    BY <1>1
    DEF recalculateSkips, Skips, IInv, Reading, UIDTypeOK, LoopTypeOK,
        ControlTypeOK, Control, Forgotten, ConvergedUIDIsQuiet, Settled,
        Unsettled, HeldBack
  <2>8. Decided'
    BY <1>1
    DEF recalculateSkips, Skips, IInv, Decided, UIDTypeOK, LoopTypeOK,
        ControlTypeOK, Reading, Forgotten, Control, ConvergedUIDIsQuiet,
        Settled, Unsettled, HeldBack
  <2>9. Control'
    BY <1>1
    DEF recalculateSkips, Skips, IInv, Control, LoopTypeOK, ControlTypeOK
  <2>10. QED
    BY <2>1, <2>2, <2>3, <2>4, <2>5, <2>6, <2>7, <2>8, <2>9 DEF IInv
<1>2. CASE recalculate
  <2>1. UIDTypeOK'
    BY <1>2 DEF recalculate, Skips, IInv, UIDTypeOK, ControlTypeOK
  <2>2. LoopTypeOK'
    <3>1. AllConverged \in BOOLEAN
      BY Zenon DEF AllConverged
    <3>2. QED
      BY <1>2, <3>1 DEF recalculate, IInv, LoopTypeOK, UIDTypeOK,
         ControlTypeOK
  <2>3. ControlTypeOK'
    BY <1>2 DEF recalculate, Skips, IInv, ControlTypeOK
  <2>4. Forgotten'
    BY <1>2 DEF recalculate, Skips, IInv, Forgotten, UIDTypeOK
  <2>5. Timers'
    BY <1>2
    DEF recalculate, Skips, IInv, Timers, Forgotten, UIDTypeOK, ControlTypeOK
  <2>6. ConvergedUIDIsQuiet'
    BY <1>2
    DEF recalculate, Skips, IInv, ConvergedUIDIsQuiet, Timers, UIDTypeOK,
        ControlTypeOK, Forgotten
  <2>7. Reading'
    BY <1>2
    DEF recalculate, Skips, IInv, Reading, UIDTypeOK, LoopTypeOK,
        ControlTypeOK, Control, Forgotten, ConvergedUIDIsQuiet, Settled,
        Unsettled, HeldBack
  <2>8. Decided'
    BY <1>2
    DEF recalculate, Skips, IInv, Decided, UIDTypeOK, LoopTypeOK,
        ControlTypeOK, Reading, Forgotten, Control, ConvergedUIDIsQuiet,
        Settled, Unsettled, HeldBack
  <2>9. Control'
    BY <1>2 DEF recalculate, Skips, IInv, Control, LoopTypeOK, ControlTypeOK
  <2>10. QED
    BY <2>1, <2>2, <2>3, <2>4, <2>5, <2>6, <2>7, <2>8, <2>9 DEF IInv
<1>3. CASE convergedSnapshot
  <2>1. UIDTypeOK'
    BY <1>3 DEF convergedSnapshot, IInv, UIDTypeOK, ControlTypeOK
  <2>2. LoopTypeOK'
    BY <1>3 DEF convergedSnapshot, IInv, LoopTypeOK
  <2>3. ControlTypeOK'
    BY <1>3 DEF convergedSnapshot, IInv, ControlTypeOK
  <2>4. Forgotten'
    BY <1>3 DEF convergedSnapshot, IInv, Forgotten, UIDTypeOK
  <2>5. Timers'
    BY <1>3
    DEF convergedSnapshot, IInv, Timers, Forgotten, UIDTypeOK, ControlTypeOK
  <2>6. ConvergedUIDIsQuiet'
    BY <1>3
    DEF convergedSnapshot, IInv, ConvergedUIDIsQuiet, Timers, UIDTypeOK,
        ControlTypeOK, Forgotten
  <2>7. Reading'
    BY <1>3
    DEF convergedSnapshot, IInv, Reading, UIDTypeOK, LoopTypeOK,
        ControlTypeOK, Control, Forgotten, ConvergedUIDIsQuiet, Settled,
        Unsettled, HeldBack
  <2>8. Decided'
    BY <1>3
    DEF convergedSnapshot, IInv, Decided, UIDTypeOK, LoopTypeOK,
        ControlTypeOK, Reading, Forgotten, Control, ConvergedUIDIsQuiet,
        Settled, Unsettled, HeldBack
  <2>9. Control'
    BY <1>3 DEF convergedSnapshot, IInv, Control, LoopTypeOK, ControlTypeOK
  <2>10. QED
    BY <2>1, <2>2, <2>3, <2>4, <2>5, <2>6, <2>7, <2>8, <2>9 DEF IInv
<1>4. CASE decide
  <2>1. UIDTypeOK'
    BY <1>4 DEF decide, IInv, UIDTypeOK, ControlTypeOK
  <2>2. LoopTypeOK'
    BY <1>4 DEF decide, IInv, LoopTypeOK
  <2>3. ControlTypeOK'
    BY <1>4 DEF decide, IInv, ControlTypeOK
  <2>4. Forgotten'
    BY <1>4 DEF decide, IInv, Forgotten, UIDTypeOK
  <2>5. Timers'
    BY <1>4 DEF decide, IInv, Timers, Forgotten, UIDTypeOK, ControlTypeOK
  <2>6. ConvergedUIDIsQuiet'
    BY <1>4
    DEF decide, IInv, ConvergedUIDIsQuiet, Timers, UIDTypeOK, ControlTypeOK,
        Forgotten
  <2>7. Reading'
    BY <1>4
    DEF decide, IInv, Reading, UIDTypeOK, LoopTypeOK, ControlTypeOK, Control,
        Forgotten, ConvergedUIDIsQuiet, Settled, Unsettled, HeldBack
  <2>8. Decided'
    BY <1>4
    DEF decide, IInv, Decided, UIDTypeOK, LoopTypeOK, ControlTypeOK, Reading,
        Forgotten, Control, ConvergedUIDIsQuiet, Settled, Unsettled, HeldBack
  <2>9. Control'
    BY <1>4 DEF decide, IInv, Control, LoopTypeOK, ControlTypeOK
  <2>10. QED
    BY <2>1, <2>2, <2>3, <2>4, <2>5, <2>6, <2>7, <2>8, <2>9 DEF IInv
<1>5. CASE runStateFns
  <2>1. UIDTypeOK'
    BY <1>5 DEF runStateFns, IInv, UIDTypeOK, ControlTypeOK
  <2>2. LoopTypeOK'
    BY <1>5 DEF runStateFns, IInv, LoopTypeOK
  <2>3. ControlTypeOK'
    BY <1>5 DEF runStateFns, IInv, ControlTypeOK
  <2>4. Forgotten'
    BY <1>5 DEF runStateFns, IInv, Forgotten, UIDTypeOK
  <2>5. Timers'
    BY <1>5 DEF runStateFns, IInv, Timers, Forgotten, UIDTypeOK, ControlTypeOK
  <2>6. ConvergedUIDIsQuiet'
    BY <1>5
    DEF runStateFns, IInv, ConvergedUIDIsQuiet, Timers, UIDTypeOK,
        ControlTypeOK, Forgotten
  <2>7. Reading'
    BY <1>5
    DEF runStateFns, IInv, Reading, UIDTypeOK, LoopTypeOK, ControlTypeOK,
        Control, Forgotten, ConvergedUIDIsQuiet, Settled, Unsettled, HeldBack
  <2>8. Decided'
    BY <1>5
    DEF runStateFns, IInv, Decided, UIDTypeOK, LoopTypeOK, ControlTypeOK,
        Reading, Forgotten, Control, ConvergedUIDIsQuiet, Settled, Unsettled,
        HeldBack
  <2>9. Control'
    BY <1>5 DEF runStateFns, IInv, Control, LoopTypeOK, ControlTypeOK
  <2>10. QED
    BY <2>1, <2>2, <2>3, <2>4, <2>5, <2>6, <2>7, <2>8, <2>9 DEF IInv
<1>6. CASE armHold
  <2>1. UIDTypeOK'
    BY <1>6 DEF armHold, IInv, UIDTypeOK, ControlTypeOK
  <2>2. LoopTypeOK'
    BY <1>6 DEF armHold, IInv, LoopTypeOK
  <2>3. ControlTypeOK'
    BY <1>6 DEF armHold, IInv, ControlTypeOK
  <2>4. Forgotten'
    BY <1>6 DEF armHold, IInv, Forgotten, UIDTypeOK
  <2>5. Timers'
    BY <1>6 DEF armHold, IInv, Timers, Forgotten, UIDTypeOK, ControlTypeOK
  <2>6. ConvergedUIDIsQuiet'
    BY <1>6
    DEF armHold, IInv, ConvergedUIDIsQuiet, Timers, UIDTypeOK, ControlTypeOK,
        Forgotten
  <2>7. Reading'
    BY <1>6
    DEF armHold, IInv, Reading, UIDTypeOK, LoopTypeOK, ControlTypeOK, Control,
        Forgotten, ConvergedUIDIsQuiet, Settled, Unsettled, HeldBack
  <2>8. Decided'
    BY <1>6
    DEF armHold, IInv, Decided, UIDTypeOK, LoopTypeOK, ControlTypeOK, Reading,
        Forgotten, Control, ConvergedUIDIsQuiet, Settled, Unsettled, HeldBack
  <2>9. Control'
    BY <1>6 DEF armHold, IInv, Control, LoopTypeOK, ControlTypeOK
  <2>10. QED
    BY <2>1, <2>2, <2>3, <2>4, <2>5, <2>6, <2>7, <2>8, <2>9 DEF IInv
<1>7. CASE selectPoke
  <2>1. UIDTypeOK'
    BY <1>7 DEF selectPoke, IInv, UIDTypeOK, ControlTypeOK
  <2>2. LoopTypeOK'
    BY <1>7 DEF selectPoke, IInv, LoopTypeOK
  <2>3. ControlTypeOK'
    BY <1>7 DEF selectPoke, IInv, ControlTypeOK
  <2>4. Forgotten'
    BY <1>7 DEF selectPoke, IInv, Forgotten, UIDTypeOK
  <2>5. Timers'
    BY <1>7 DEF selectPoke, IInv, Timers, Forgotten, UIDTypeOK, ControlTypeOK
  <2>6. ConvergedUIDIsQuiet'
    BY <1>7
    DEF selectPoke, IInv, ConvergedUIDIsQuiet, Timers, UIDTypeOK,
        ControlTypeOK, Forgotten
  <2>7. Reading'
    BY <1>7
    DEF selectPoke, IInv, Reading, UIDTypeOK, LoopTypeOK, ControlTypeOK,
        Control, Forgotten, ConvergedUIDIsQuiet, Settled, Unsettled, HeldBack
  <2>8. Decided'
    BY <1>7
    DEF selectPoke, IInv, Decided, UIDTypeOK, LoopTypeOK, ControlTypeOK,
        Reading, Forgotten, Control, ConvergedUIDIsQuiet, Settled, Unsettled,
        HeldBack
  <2>9. Control'
    BY <1>7 DEF selectPoke, IInv, Control, LoopTypeOK, ControlTypeOK
  <2>10. QED
    BY <2>1, <2>2, <2>3, <2>4, <2>5, <2>6, <2>7, <2>8, <2>9 DEF IInv
<1>8. CASE selectHold
  <2>1. UIDTypeOK'
    BY <1>8 DEF selectHold, IInv, UIDTypeOK, ControlTypeOK
  <2>2. LoopTypeOK'
    BY <1>8 DEF selectHold, IInv, LoopTypeOK
  <2>3. ControlTypeOK'
    BY <1>8 DEF selectHold, IInv, ControlTypeOK
  <2>4. Forgotten'
    BY <1>8 DEF selectHold, IInv, Forgotten, UIDTypeOK
  <2>5. Timers'
    BY <1>8 DEF selectHold, IInv, Timers, Forgotten, UIDTypeOK, ControlTypeOK
  <2>6. ConvergedUIDIsQuiet'
    BY <1>8
    DEF selectHold, IInv, ConvergedUIDIsQuiet, Timers, UIDTypeOK,
        ControlTypeOK, Forgotten
  <2>7. Reading'
    BY <1>8
    DEF selectHold, IInv, Reading, UIDTypeOK, LoopTypeOK, ControlTypeOK,
        Control, Forgotten, ConvergedUIDIsQuiet, Settled, Unsettled, HeldBack
  <2>8. Decided'
    BY <1>8
    DEF selectHold, IInv, Decided, UIDTypeOK, LoopTypeOK, ControlTypeOK,
        Reading, Forgotten, Control, ConvergedUIDIsQuiet, Settled, Unsettled,
        HeldBack
  <2>9. Control'
    BY <1>8 DEF selectHold, IInv, Control, LoopTypeOK, ControlTypeOK
  <2>10. QED
    BY <2>1, <2>2, <2>3, <2>4, <2>5, <2>6, <2>7, <2>8, <2>9 DEF IInv
<1>9. CASE selectControl
  <2>1. UIDTypeOK'
    BY <1>9 DEF selectControl, holdAfter, IInv, UIDTypeOK, ControlTypeOK
  <2>2. LoopTypeOK'
    BY <1>9 DEF selectControl, holdAfter, IInv, LoopTypeOK
  <2>3. ControlTypeOK'
    BY <1>9 DEF selectControl, holdAfter, IInv, ControlTypeOK
  <2>4. Forgotten'
    BY <1>9 DEF selectControl, holdAfter, IInv, Forgotten, UIDTypeOK
  <2>5. Timers'
    BY <1>9
    DEF selectControl, holdAfter, IInv, Timers, Forgotten, UIDTypeOK,
        ControlTypeOK
  <2>6. ConvergedUIDIsQuiet'
    BY <1>9
    DEF selectControl, holdAfter, IInv, ConvergedUIDIsQuiet, Timers,
        UIDTypeOK, ControlTypeOK, Forgotten
  <2>7. Reading'
    BY <1>9
    DEF selectControl, holdAfter, IInv, Reading, UIDTypeOK, LoopTypeOK,
        ControlTypeOK, Control, Forgotten, ConvergedUIDIsQuiet, Settled,
        Unsettled, HeldBack
  <2>8. Decided'
    BY <1>9
    DEF selectControl, holdAfter, IInv, Decided, UIDTypeOK, LoopTypeOK,
        ControlTypeOK, Reading, Forgotten, Control, ConvergedUIDIsQuiet,
        Settled, Unsettled, HeldBack
  <2>9. Control'
    BY <1>9
    DEF selectControl, holdAfter, IInv, Control, LoopTypeOK, ControlTypeOK
  <2>10. QED
    BY <2>1, <2>2, <2>3, <2>4, <2>5, <2>6, <2>7, <2>8, <2>9 DEF IInv
<1>10. CASE selectDone
  <2>1. UIDTypeOK'
    BY <1>10 DEF selectDone, IInv, UIDTypeOK, ControlTypeOK
  <2>2. LoopTypeOK'
    BY <1>10 DEF selectDone, IInv, LoopTypeOK
  <2>3. ControlTypeOK'
    BY <1>10 DEF selectDone, IInv, ControlTypeOK
  <2>4. Forgotten'
    BY <1>10 DEF selectDone, IInv, Forgotten, UIDTypeOK
  <2>5. Timers'
    BY <1>10 DEF selectDone, IInv, Timers, Forgotten, UIDTypeOK, ControlTypeOK
  <2>6. ConvergedUIDIsQuiet'
    BY <1>10
    DEF selectDone, IInv, ConvergedUIDIsQuiet, Timers, UIDTypeOK,
        ControlTypeOK, Forgotten
  <2>7. Reading'
    BY <1>10
    DEF selectDone, IInv, Reading, UIDTypeOK, LoopTypeOK, ControlTypeOK,
        Control, Forgotten, ConvergedUIDIsQuiet, Settled, Unsettled, HeldBack
  <2>8. Decided'
    BY <1>10
    DEF selectDone, IInv, Decided, UIDTypeOK, LoopTypeOK, ControlTypeOK,
        Reading, Forgotten, Control, ConvergedUIDIsQuiet, Settled, Unsettled,
        HeldBack
  <2>9. Control'
    BY <1>10 DEF selectDone, IInv, Control, LoopTypeOK, ControlTypeOK
  <2>10. QED
    BY <2>1, <2>2, <2>3, <2>4, <2>5, <2>6, <2>7, <2>8, <2>9 DEF IInv
<1>11. CASE Return
  <2>1. UIDTypeOK'
    BY <1>11 DEF Return, IInv, UIDTypeOK, ControlTypeOK
  <2>2. LoopTypeOK'
    BY <1>11 DEF Return, IInv, LoopTypeOK
  <2>3. ControlTypeOK'
    BY <1>11 DEF Return, IInv, ControlTypeOK
  <2>4. Forgotten'
    BY <1>11 DEF Return, IInv, Forgotten, UIDTypeOK
  <2>5. Timers'
    BY <1>11 DEF Return, IInv, Timers, Forgotten, UIDTypeOK, ControlTypeOK
  <2>6. ConvergedUIDIsQuiet'
    BY <1>11
    DEF Return, IInv, ConvergedUIDIsQuiet, Timers, UIDTypeOK, ControlTypeOK,
        Forgotten
  <2>7. Reading'
    BY <1>11
    DEF Return, IInv, Reading, UIDTypeOK, LoopTypeOK, ControlTypeOK, Control,
        Forgotten, ConvergedUIDIsQuiet, Settled, Unsettled, HeldBack
  <2>8. Decided'
    BY <1>11
    DEF Return, IInv, Decided, UIDTypeOK, LoopTypeOK, ControlTypeOK, Reading,
        Forgotten, Control, ConvergedUIDIsQuiet, Settled, Unsettled, HeldBack
  <2>9. Control'
    BY <1>11 DEF Return, IInv, Control, LoopTypeOK, ControlTypeOK
  <2>10. QED
    BY <2>1, <2>2, <2>3, <2>4, <2>5, <2>6, <2>7, <2>8, <2>9 DEF IInv
<1>12. QED
  BY <1>1, <1>2, <1>3, <1>4, <1>5, <1>6, <1>7, <1>8, <1>9, <1>10, <1>11
  DEF LoopNext

\* The steps of the callers of Pause and Resume preserve the invariant
LEMMA CallerStep == IInv /\ CallerNext => IInv'
<1> SUFFICES ASSUME IInv, CallerNext PROVE IInv'
  OBVIOUS
<1> USE DurationAssumption, TimeAssumption DEF Holds, NoHold
<1>1. CASE Pause
  <2>1. UIDTypeOK'
    BY <1>1 DEF Pause, IInv, UIDTypeOK, ControlTypeOK
  <2>2. LoopTypeOK'
    BY <1>1 DEF Pause, IInv, LoopTypeOK
  <2>3. ControlTypeOK'
    BY <1>1 DEF Pause, IInv, ControlTypeOK
  <2>4. Forgotten'
    BY <1>1 DEF Pause, IInv, Forgotten, UIDTypeOK
  <2>5. Timers'
    BY <1>1 DEF Pause, IInv, Timers, Forgotten, UIDTypeOK, ControlTypeOK
  <2>6. ConvergedUIDIsQuiet'
    BY <1>1
    DEF Pause, IInv, ConvergedUIDIsQuiet, Timers, UIDTypeOK, ControlTypeOK,
        Forgotten
  <2>7. Reading'
    BY <1>1
    DEF Pause, IInv, Reading, UIDTypeOK, LoopTypeOK, ControlTypeOK, Control,
        Forgotten, ConvergedUIDIsQuiet, Settled, Unsettled, HeldBack
  <2>8. Decided'
    BY <1>1
    DEF Pause, IInv, Decided, UIDTypeOK, LoopTypeOK, ControlTypeOK, Reading,
        Forgotten, Control, ConvergedUIDIsQuiet, Settled, Unsettled, HeldBack
  <2>9. Control'
    BY <1>1 DEF Pause, IInv, Control, LoopTypeOK, ControlTypeOK
  <2>10. QED
    BY <2>1, <2>2, <2>3, <2>4, <2>5, <2>6, <2>7, <2>8, <2>9 DEF IInv
<1>2. CASE Resume
  <2>1. UIDTypeOK'
    BY <1>2 DEF Resume, IInv, UIDTypeOK, ControlTypeOK
  <2>2. LoopTypeOK'
    BY <1>2 DEF Resume, IInv, LoopTypeOK
  <2>3. ControlTypeOK'
    BY <1>2 DEF Resume, IInv, ControlTypeOK
  <2>4. Forgotten'
    BY <1>2 DEF Resume, IInv, Forgotten, UIDTypeOK
  <2>5. Timers'
    BY <1>2 DEF Resume, IInv, Timers, Forgotten, UIDTypeOK, ControlTypeOK
  <2>6. ConvergedUIDIsQuiet'
    BY <1>2
    DEF Resume, IInv, ConvergedUIDIsQuiet, Timers, UIDTypeOK, ControlTypeOK,
        Forgotten
  <2>7. Reading'
    BY <1>2
    DEF Resume, IInv, Reading, UIDTypeOK, LoopTypeOK, ControlTypeOK, Control,
        Forgotten, ConvergedUIDIsQuiet, Settled, Unsettled, HeldBack
  <2>8. Decided'
    BY <1>2
    DEF Resume, IInv, Decided, UIDTypeOK, LoopTypeOK, ControlTypeOK, Reading,
        Forgotten, Control, ConvergedUIDIsQuiet, Settled, Unsettled, HeldBack
  <2>9. Control'
    BY <1>2 DEF Resume, IInv, Control, LoopTypeOK, ControlTypeOK
  <2>10. QED
    BY <2>1, <2>2, <2>3, <2>4, <2>5, <2>6, <2>7, <2>8, <2>9 DEF IInv
<1>3. CASE helperPauseResumeDone
  <2>1. UIDTypeOK'
    BY <1>3 DEF helperPauseResumeDone, IInv, UIDTypeOK, ControlTypeOK
  <2>2. LoopTypeOK'
    BY <1>3 DEF helperPauseResumeDone, IInv, LoopTypeOK
  <2>3. ControlTypeOK'
    BY <1>3 DEF helperPauseResumeDone, IInv, ControlTypeOK
  <2>4. Forgotten'
    BY <1>3 DEF helperPauseResumeDone, IInv, Forgotten, UIDTypeOK
  <2>5. Timers'
    BY <1>3
    DEF helperPauseResumeDone, IInv, Timers, Forgotten, UIDTypeOK,
        ControlTypeOK
  <2>6. ConvergedUIDIsQuiet'
    BY <1>3
    DEF helperPauseResumeDone, IInv, ConvergedUIDIsQuiet, Timers, UIDTypeOK,
        ControlTypeOK, Forgotten
  <2>7. Reading'
    BY <1>3
    DEF helperPauseResumeDone, IInv, Reading, UIDTypeOK, LoopTypeOK,
        ControlTypeOK, Control, Forgotten, ConvergedUIDIsQuiet, Settled,
        Unsettled, HeldBack
  <2>8. Decided'
    BY <1>3
    DEF helperPauseResumeDone, IInv, Decided, UIDTypeOK, LoopTypeOK,
        ControlTypeOK, Reading, Forgotten, Control, ConvergedUIDIsQuiet,
        Settled, Unsettled, HeldBack
  <2>9. Control'
    BY <1>3
    DEF helperPauseResumeDone, IInv, Control, LoopTypeOK, ControlTypeOK
  <2>10. QED
    BY <2>1, <2>2, <2>3, <2>4, <2>5, <2>6, <2>7, <2>8, <2>9 DEF IInv
<1>4. CASE Shutdown
  <2>1. UIDTypeOK'
    BY <1>4 DEF Shutdown, IInv, UIDTypeOK, ControlTypeOK
  <2>2. LoopTypeOK'
    BY <1>4 DEF Shutdown, IInv, LoopTypeOK
  <2>3. ControlTypeOK'
    BY <1>4 DEF Shutdown, IInv, ControlTypeOK
  <2>4. Forgotten'
    BY <1>4 DEF Shutdown, IInv, Forgotten, UIDTypeOK
  <2>5. Timers'
    BY <1>4 DEF Shutdown, IInv, Timers, Forgotten, UIDTypeOK, ControlTypeOK
  <2>6. ConvergedUIDIsQuiet'
    BY <1>4
    DEF Shutdown, IInv, ConvergedUIDIsQuiet, Timers, UIDTypeOK, ControlTypeOK,
        Forgotten
  <2>7. Reading'
    BY <1>4
    DEF Shutdown, IInv, Reading, UIDTypeOK, LoopTypeOK, ControlTypeOK,
        Control, Forgotten, ConvergedUIDIsQuiet, Settled, Unsettled, HeldBack
  <2>8. Decided'
    BY <1>4
    DEF Shutdown, IInv, Decided, UIDTypeOK, LoopTypeOK, ControlTypeOK,
        Reading, Forgotten, Control, ConvergedUIDIsQuiet, Settled, Unsettled,
        HeldBack
  <2>9. Control'
    BY <1>4 DEF Shutdown, IInv, Control, LoopTypeOK, ControlTypeOK
  <2>10. QED
    BY <2>1, <2>2, <2>3, <2>4, <2>5, <2>6, <2>7, <2>8, <2>9 DEF IInv
<1>5. QED
  BY <1>1, <1>2, <1>3, <1>4 DEF CallerNext

\* The clock preserves the invariant: deadlines that have passed stay so
LEMMA TickStep == IInv /\ Tick => IInv'
  BY DurationAssumption, TimeAssumption
  DEF Tick, IInv, UIDTypeOK, LoopTypeOK, ControlTypeOK, Forgotten, Timers,
      ConvergedUIDIsQuiet, Reading, Decided, Control, Holds, NoHold, Settled,
      Unsettled, HeldBack

\* A step that changes nothing preserves the invariant
LEMMA Stutter == IInv /\ UNCHANGED vars => IInv'
  BY DEF IInv, UIDTypeOK, LoopTypeOK, ControlTypeOK, Forgotten, Timers,
      ConvergedUIDIsQuiet, Reading, Decided, Control, Settled, Unsettled,
      HeldBack

\* The invariant of the coordinator and its UIDs holds in every behaviour
THEOREM Invariance == Spec => []IInv
<1>1. IInv /\ [Next]_vars => IInv'
  BY UIDStep, LoopStep, CallerStep, TickStep, Stutter DEF Next, Terminated
<1>2. QED
  BY <1>1, InitInv, PTL DEF Spec

\* Every variable of the coordinator and of its UIDs keeps its type, and an
\* unregistered UID leaves no timer behind
THEOREM TypeCorrect == Spec => []TypeOK
<1>1. IInv => TypeOK
  BY DEF IInv, TypeOK, Forgotten
<1>2. QED
  BY <1>1, Invariance, PTL

\* A UID counts as converged only after Duration without activity, whatever
\* callbacks of replaced timers are still under way
THEOREM OnlyQuietUIDsConverge == Spec => []ConvergedUIDIsQuiet
<1>1. IInv => ConvergedUIDIsQuiet
  BY DEF IInv
<1>2. QED
  BY <1>1, Invariance, PTL

\* A blocked main loop with no poke on its way reports what the UIDs say,
\* although it read their flags one by one while they changed
THEOREM PokesAreNotLost == Spec => []NoLostPoke
<1>1. IInv => NoLostPoke
  <2> SUFFICES ASSUME IInv, Blocked PROVE converged <=> AllConverged /\ ~HeldBack
    BY DEF NoLostPoke
  <2>1. \A u \in status : u \in UID /\ ~owesPoke[u]
    BY DEF Blocked, IInv, UIDTypeOK
  <2>2. /\ converged => ~HeldBack /\ \A u \in status : Settled(u)
        /\ ~converged => HeldBack \/ \E u \in status : Unsettled(u)
    BY DEF Blocked, IInv, Decided
  <2>3. QED
    BY <2>1, <2>2 DEF AllConverged, Settled, Unsettled, IInv, LoopTypeOK
<1>2. QED
  BY <1>1, Invariance, PTL

\* No state function runs between the return of Pause and the next Resume
THEOREM PauseIsSilent == Spec => []PausedIsSilent
<1>1. IInv => PausedIsSilent
  BY DEF IInv, PausedIsSilent, Control, LoopTypeOK
<1>2. QED
  BY <1>1, Invariance, PTL
=============================================================================

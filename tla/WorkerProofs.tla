---------------------------- MODULE WorkerProofs ----------------------------
(***************************************************************************)
(* The safety properties of Worker, for every setting of the               *)
(* metaparameters.                                                         *)
(***************************************************************************)
EXTENDS Worker, TLAPS

\* Each done channel is closed only once its reason is on record
DoneReasons ==
    /\ doneChans \cap {"process", "watch", "limit", "retry"} # {} => failed
    /\ doneChans \cap {"watch", "limit", "retry"} # {} => watch = "exited"
    /\ "events" \in doneChans => proc \in {"returned", "exited"}
    /\ "remove" \in doneChans <=> engine \in {"removing", "removed"}
    /\ resumeClosed <=> engine \in {"removing", "removed"}
    /\ closed => resumeClosed
    /\ doneCtx => doneChans # {}

\* What the engine goroutine may rely on at each of its places
Handshake ==
    /\ engine \in {"paused", "resuming", "removing", "removed"}
         => proc \in {"wait", "paused"} \/ Dead
    /\ engine = "idle" /\ paused => doneCtx
    /\ engine = "pausing" => ~paused
    /\ engine \in {"paused", "resuming"} /\ ~paused => doneCtx

\* What is true whenever a Process runs, and before the first Resume
Running ==
    /\ proc \in Processing => started /\ ~failed /\ ~closed /\ pCancel
    /\ proc = "wait" => ~started

\* A Watch that has yet to send its initial event is not believed to run
Withdrawn == watch \in {"delay", "starting"} => ~started \/ doneCtx

\* NoSwallowedChange, extended to a Process about to store its verdict
Tracked ==
    /\ isStateOK => ~Noop
    /\ Mode = "watch" /\ wrong /\ (isStateOK \/ (proc = "store" /\ ~Noop))
         => watch # "running" \/ noticed

\* What Process leaves behind for the retry loop to judge
Verdict ==
    /\ proc = "return" =>
         /\ result # "none"
         /\ result = "nil" => isStateOK \/ Noop \/ interrupt # "off"
         /\ result = "error" => genuine \/ cancelled
    /\ proc \in Processing /\ cancelled
         => interrupt = "done" \/ watch \in {"restarting", "erroring"}

IInv ==
    /\ TypeOK /\ DoneReasons /\ Handshake /\ Running /\ Withdrawn /\ Tracked
    /\ Verdict /\ DoneNeverHitsProcess /\ NoPanic /\ InterruptReaches
    /\ IdleIsClean

-----------------------------------------------------------------------------
\* Everything in the invariant is made of these state predicates and sets
USE DEF WatchTypeOK, LoopTypeOK, SharedTypeOK, EngineTypeOK, WatchStates, ProcStates, EngineStates, DoneChans, Selects,
        Processing, vars, watchVars, loopVars, metaVars, stateVars, ctxVars,
        doneVars, engineVars

LEMMA InitInv == Init => IInv
  BY RetryAssumption, FlagAssumption
  DEF Init, IInv, TypeOK, DoneReasons, Handshake, Dead, Running, Withdrawn,
     Tracked, Verdict, DoneNeverHitsProcess, NoPanic, InterruptReaches,
     IdleIsClean

\* The steps of the Watch retry loop preserve the invariant
LEMMA WatchStep == IInv /\ (WatchNext) => IInv'
<1> SUFFICES ASSUME IInv, WatchNext PROVE IInv'
  OBVIOUS
<1> USE RetryAssumption, FlagAssumption, ModeAssumption
<1>1. CASE WatchDelayExpired
  BY <1>1 DEF WatchDelayExpired, IInv, TypeOK, DoneReasons, Handshake, Dead,
     Running, Withdrawn, Tracked, Verdict, DoneNeverHitsProcess, NoPanic,
     InterruptReaches, IdleIsClean
<1>2. CASE WatchExit
  <2>1. WatchTypeOK'
    BY <1>2 DEF WatchExit, IInv, TypeOK
  <2>2. LoopTypeOK'
    BY <1>2 DEF WatchExit, IInv, TypeOK
  <2>3. SharedTypeOK'
    BY <1>2 DEF WatchExit, IInv, TypeOK
  <2>4. EngineTypeOK'
    BY <1>2 DEF WatchExit, IInv, TypeOK
  <2>5. DoneReasons'
    BY <1>2 DEF WatchExit, IInv, TypeOK, DoneReasons, Handshake, Dead, Running,
       DoneNeverHitsProcess
  <2>6. Handshake'
    BY <1>2 DEF WatchExit, IInv, TypeOK, DoneReasons, Handshake, Dead, Running,
       DoneNeverHitsProcess
  <2>7. Running'
    BY <1>2 DEF WatchExit, IInv, TypeOK, DoneReasons, Handshake, Dead, Running,
       DoneNeverHitsProcess
  <2>8. Withdrawn'
    BY <1>2 DEF WatchExit, IInv, TypeOK, Withdrawn, Running
  <2>9. Tracked'
    BY <1>2 DEF WatchExit, IInv, TypeOK, Tracked
  <2>10. DoneNeverHitsProcess'
    BY <1>2 DEF WatchExit, IInv, TypeOK, DoneReasons, Handshake, Dead, Running,
       DoneNeverHitsProcess
  <2>11. NoPanic'
    BY <1>2 DEF WatchExit, IInv, TypeOK, DoneReasons, Handshake, Dead, Running,
       DoneNeverHitsProcess, NoPanic
  <2>12. InterruptReaches'
    BY <1>2 DEF WatchExit, IInv, TypeOK, InterruptReaches, Running
  <2>13. Verdict'
    BY <1>2 DEF WatchExit, IInv, TypeOK, Verdict, Running, DoneNeverHitsProcess
  <2>14. IdleIsClean'
    BY <1>2 DEF WatchExit, IInv, TypeOK, IdleIsClean, Verdict, Running,
       DoneReasons, DoneNeverHitsProcess
  <2>15. QED
    BY <2>1, <2>2, <2>3, <2>4, <2>5, <2>6, <2>7, <2>8, <2>9, <2>10, <2>11,
       <2>12, <2>13, <2>14 DEF IInv, TypeOK
<1>3. CASE WatchFail
  <2>1. WatchTypeOK'
    BY <1>3 DEF WatchFail, IInv, TypeOK
  <2>2. LoopTypeOK'
    BY <1>3 DEF WatchFail, IInv, TypeOK
  <2>3. SharedTypeOK'
    BY <1>3 DEF WatchFail, IInv, TypeOK
  <2>4. EngineTypeOK'
    BY <1>3 DEF WatchFail, IInv, TypeOK
  <2>5. DoneReasons'
    BY <1>3 DEF WatchFail, IInv, TypeOK, DoneReasons, Handshake, Dead, Running,
       DoneNeverHitsProcess
  <2>6. Handshake'
    BY <1>3 DEF WatchFail, IInv, TypeOK, DoneReasons, Handshake, Dead, Running,
       DoneNeverHitsProcess
  <2>7. Running'
    BY <1>3 DEF WatchFail, IInv, TypeOK, DoneReasons, Handshake, Dead, Running,
       DoneNeverHitsProcess
  <2>8. Withdrawn'
    BY <1>3 DEF WatchFail, IInv, TypeOK, Withdrawn, Running
  <2>9. Tracked'
    BY <1>3 DEF WatchFail, IInv, TypeOK, Tracked
  <2>10. DoneNeverHitsProcess'
    BY <1>3 DEF WatchFail, IInv, TypeOK, DoneReasons, Handshake, Dead, Running,
       DoneNeverHitsProcess
  <2>11. NoPanic'
    BY <1>3 DEF WatchFail, IInv, TypeOK, DoneReasons, Handshake, Dead, Running,
       DoneNeverHitsProcess, NoPanic
  <2>12. InterruptReaches'
    BY <1>3 DEF WatchFail, IInv, TypeOK, InterruptReaches, Running
  <2>13. Verdict'
    BY <1>3 DEF WatchFail, IInv, TypeOK, Verdict, Running, DoneNeverHitsProcess
  <2>14. IdleIsClean'
    BY <1>3 DEF WatchFail, IInv, TypeOK, IdleIsClean, Verdict, Running,
       DoneReasons, DoneNeverHitsProcess
  <2>15. QED
    BY <2>1, <2>2, <2>3, <2>4, <2>5, <2>6, <2>7, <2>8, <2>9, <2>10, <2>11,
       <2>12, <2>13, <2>14 DEF IInv, TypeOK
<1>4. CASE WatchCancelsProcess
  BY <1>4 DEF WatchCancelsProcess, cancelProcess, IInv, TypeOK, DoneReasons,
     Handshake, Dead, Running, Withdrawn, Tracked, Verdict,
     DoneNeverHitsProcess, NoPanic, InterruptReaches, IdleIsClean
<1>5. CASE WatchSkipsSentinel
  BY <1>5 DEF WatchSkipsSentinel, WatchRestarts, WatchAgain, SpendRetry, IInv,
     TypeOK, DoneReasons, Handshake, Dead, Running, Withdrawn, Tracked, Verdict,
     DoneNeverHitsProcess, NoPanic, InterruptReaches, IdleIsClean
<1>6. CASE PollTick
  BY <1>6 DEF PollTick, IInv, TypeOK, DoneReasons, Handshake, Dead, Running,
     Withdrawn, Tracked, Verdict, DoneNeverHitsProcess, NoPanic,
     InterruptReaches, IdleIsClean
<1>7. QED
  BY <1>1, <1>2, <1>3, <1>4, <1>5, <1>6 DEF WatchNext

\* The steps of the selects of the process loop preserve the invariant
LEMMA ReceiveStep == IInv /\ (ReceiveNext) => IInv'
<1> SUFFICES ASSUME IInv, ReceiveNext PROVE IInv'
  OBVIOUS
<1> USE RetryAssumption, FlagAssumption, ModeAssumption
<1>1. CASE RecvEvent
  <2>1. WatchTypeOK'
    BY <1>1 DEF RecvEvent, HasEvent, setDirty, PassThrough, MayProcess, IInv,
       TypeOK
  <2>2. LoopTypeOK'
    BY <1>1 DEF RecvEvent, HasEvent, setDirty, PassThrough, MayProcess, IInv,
       TypeOK
  <2>3. SharedTypeOK'
    BY <1>1 DEF RecvEvent, HasEvent, setDirty, PassThrough, MayProcess, IInv,
       TypeOK
  <2>4. EngineTypeOK'
    BY <1>1 DEF RecvEvent, HasEvent, setDirty, PassThrough, MayProcess, IInv,
       TypeOK
  <2>5. DoneReasons'
    BY <1>1 DEF RecvEvent, HasEvent, setDirty, PassThrough, MayProcess, IInv,
       TypeOK, DoneReasons, Handshake, Dead, Running, DoneNeverHitsProcess
  <2>6. Handshake'
    BY <1>1 DEF RecvEvent, HasEvent, setDirty, PassThrough, MayProcess, IInv,
       TypeOK, DoneReasons, Handshake, Dead, Running, DoneNeverHitsProcess
  <2>7. Running'
    BY <1>1 DEF RecvEvent, HasEvent, setDirty, PassThrough, MayProcess, IInv,
       TypeOK, DoneReasons, Handshake, Dead, Running, DoneNeverHitsProcess
  <2>8. Withdrawn'
    BY <1>1 DEF RecvEvent, HasEvent, setDirty, PassThrough, MayProcess, IInv,
       TypeOK, Withdrawn, Running
  <2>9. Tracked'
    BY <1>1 DEF RecvEvent, HasEvent, setDirty, PassThrough, MayProcess, IInv,
       TypeOK, Tracked
  <2>10. DoneNeverHitsProcess'
    BY <1>1 DEF RecvEvent, HasEvent, setDirty, PassThrough, MayProcess, IInv,
       TypeOK, DoneReasons, Handshake, Dead, Running, DoneNeverHitsProcess
  <2>11. NoPanic'
    BY <1>1 DEF RecvEvent, HasEvent, setDirty, PassThrough, MayProcess, IInv,
       TypeOK, DoneReasons, Handshake, Dead, Running, DoneNeverHitsProcess,
       NoPanic
  <2>12. InterruptReaches'
    BY <1>1 DEF RecvEvent, HasEvent, setDirty, PassThrough, MayProcess, IInv,
       TypeOK, InterruptReaches, Running
  <2>13. Verdict'
    BY <1>1 DEF RecvEvent, HasEvent, setDirty, PassThrough, MayProcess, IInv,
       TypeOK, Verdict, Running, DoneNeverHitsProcess
  <2>14. IdleIsClean'
    BY <1>1 DEF RecvEvent, HasEvent, setDirty, PassThrough, MayProcess, IInv,
       TypeOK, IdleIsClean, Verdict, Running, DoneReasons, DoneNeverHitsProcess
  <2>15. QED
    BY <2>1, <2>2, <2>3, <2>4, <2>5, <2>6, <2>7, <2>8, <2>9, <2>10, <2>11,
       <2>12, <2>13, <2>14 DEF IInv, TypeOK
<1>2. CASE RecvEventWhileWaiting
  <2>1. WatchTypeOK'
    BY <1>2 DEF RecvEventWhileWaiting, HasEvent, setDirty, IInv, TypeOK
  <2>2. LoopTypeOK'
    BY <1>2 DEF RecvEventWhileWaiting, HasEvent, setDirty, IInv, TypeOK
  <2>3. SharedTypeOK'
    BY <1>2 DEF RecvEventWhileWaiting, HasEvent, setDirty, IInv, TypeOK
  <2>4. EngineTypeOK'
    BY <1>2 DEF RecvEventWhileWaiting, HasEvent, setDirty, IInv, TypeOK
  <2>5. DoneReasons'
    BY <1>2 DEF RecvEventWhileWaiting, HasEvent, setDirty, IInv, TypeOK,
       DoneReasons, Handshake, Dead, Running, DoneNeverHitsProcess
  <2>6. Handshake'
    BY <1>2 DEF RecvEventWhileWaiting, HasEvent, setDirty, IInv, TypeOK,
       DoneReasons, Handshake, Dead, Running, DoneNeverHitsProcess
  <2>7. Running'
    BY <1>2 DEF RecvEventWhileWaiting, HasEvent, setDirty, IInv, TypeOK,
       DoneReasons, Handshake, Dead, Running, DoneNeverHitsProcess
  <2>8. Withdrawn'
    BY <1>2 DEF RecvEventWhileWaiting, HasEvent, setDirty, IInv, TypeOK,
       Withdrawn, Running
  <2>9. Tracked'
    BY <1>2 DEF RecvEventWhileWaiting, HasEvent, setDirty, IInv, TypeOK, Tracked
  <2>10. DoneNeverHitsProcess'
    BY <1>2 DEF RecvEventWhileWaiting, HasEvent, setDirty, IInv, TypeOK,
       DoneReasons, Handshake, Dead, Running, DoneNeverHitsProcess
  <2>11. NoPanic'
    BY <1>2 DEF RecvEventWhileWaiting, HasEvent, setDirty, IInv, TypeOK,
       DoneReasons, Handshake, Dead, Running, DoneNeverHitsProcess, NoPanic
  <2>12. InterruptReaches'
    BY <1>2 DEF RecvEventWhileWaiting, HasEvent, setDirty, IInv, TypeOK,
       InterruptReaches, Running
  <2>13. Verdict'
    BY <1>2 DEF RecvEventWhileWaiting, HasEvent, setDirty, IInv, TypeOK,
       Verdict, Running, DoneNeverHitsProcess
  <2>14. IdleIsClean'
    BY <1>2 DEF RecvEventWhileWaiting, HasEvent, setDirty, IInv, TypeOK,
       IdleIsClean, Verdict, Running, DoneReasons, DoneNeverHitsProcess
  <2>15. QED
    BY <2>1, <2>2, <2>3, <2>4, <2>5, <2>6, <2>7, <2>8, <2>9, <2>10, <2>11,
       <2>12, <2>13, <2>14 DEF IInv, TypeOK
<1>3. CASE RecvWatchRestart
  <2>1. WatchTypeOK'
    BY <1>3 DEF RecvWatchRestart, WatchRestarts, WatchAgain, SpendRetry, IInv,
       TypeOK
  <2>2. LoopTypeOK'
    BY <1>3 DEF RecvWatchRestart, WatchRestarts, WatchAgain, SpendRetry, IInv,
       TypeOK
  <2>3. SharedTypeOK'
    BY <1>3 DEF RecvWatchRestart, WatchRestarts, WatchAgain, SpendRetry, IInv,
       TypeOK
  <2>4. EngineTypeOK'
    BY <1>3 DEF RecvWatchRestart, WatchRestarts, WatchAgain, SpendRetry, IInv,
       TypeOK
  <2>5. DoneReasons'
    BY <1>3 DEF RecvWatchRestart, WatchRestarts, WatchAgain, SpendRetry, IInv,
       TypeOK, DoneReasons, Handshake, Dead, Running, DoneNeverHitsProcess
  <2>6. Handshake'
    BY <1>3 DEF RecvWatchRestart, WatchRestarts, WatchAgain, SpendRetry, IInv,
       TypeOK, DoneReasons, Handshake, Dead, Running, DoneNeverHitsProcess
  <2>7. Running'
    BY <1>3 DEF RecvWatchRestart, WatchRestarts, WatchAgain, SpendRetry, IInv,
       TypeOK, DoneReasons, Handshake, Dead, Running, DoneNeverHitsProcess
  <2>8. Withdrawn'
    BY <1>3 DEF RecvWatchRestart, WatchRestarts, WatchAgain, SpendRetry, IInv,
       TypeOK, Withdrawn, Running
  <2>9. Tracked'
    BY <1>3 DEF RecvWatchRestart, WatchRestarts, WatchAgain, SpendRetry, IInv,
       TypeOK, Tracked
  <2>10. DoneNeverHitsProcess'
    BY <1>3 DEF RecvWatchRestart, WatchRestarts, WatchAgain, SpendRetry, IInv,
       TypeOK, DoneReasons, Handshake, Dead, Running, DoneNeverHitsProcess
  <2>11. NoPanic'
    BY <1>3 DEF RecvWatchRestart, WatchRestarts, WatchAgain, SpendRetry, IInv,
       TypeOK, DoneReasons, Handshake, Dead, Running, DoneNeverHitsProcess,
       NoPanic
  <2>12. InterruptReaches'
    BY <1>3 DEF RecvWatchRestart, WatchRestarts, WatchAgain, SpendRetry, IInv,
       TypeOK, InterruptReaches, Running
  <2>13. Verdict'
    BY <1>3 DEF RecvWatchRestart, WatchRestarts, WatchAgain, SpendRetry, IInv,
       TypeOK, Verdict, Running, DoneNeverHitsProcess
  <2>14. IdleIsClean'
    BY <1>3 DEF RecvWatchRestart, WatchRestarts, WatchAgain, SpendRetry, IInv,
       TypeOK, IdleIsClean, Verdict, Running, DoneReasons, DoneNeverHitsProcess
  <2>15. QED
    BY <2>1, <2>2, <2>3, <2>4, <2>5, <2>6, <2>7, <2>8, <2>9, <2>10, <2>11,
       <2>12, <2>13, <2>14 DEF IInv, TypeOK
<1>4. CASE RecvWatchError
  BY <1>4 DEF RecvWatchError, Close, IInv, TypeOK, DoneReasons, Handshake, Dead,
     Running, Withdrawn, Tracked, Verdict, DoneNeverHitsProcess, NoPanic,
     InterruptReaches, IdleIsClean
<1>5. CASE RecvClosed
  BY <1>5 DEF RecvClosed, Close, IInv, TypeOK, DoneReasons, Handshake, Dead,
     Running, Withdrawn, Tracked, Verdict, DoneNeverHitsProcess, NoPanic,
     InterruptReaches, IdleIsClean
<1>6. CASE RecvPoke
  <2>1. WatchTypeOK'
    BY <1>6 DEF RecvPoke, PassThrough, MayProcess, IInv, TypeOK
  <2>2. LoopTypeOK'
    BY <1>6 DEF RecvPoke, PassThrough, MayProcess, IInv, TypeOK
  <2>3. SharedTypeOK'
    BY <1>6 DEF RecvPoke, PassThrough, MayProcess, IInv, TypeOK
  <2>4. EngineTypeOK'
    BY <1>6 DEF RecvPoke, PassThrough, MayProcess, IInv, TypeOK
  <2>5. DoneReasons'
    BY <1>6 DEF RecvPoke, PassThrough, MayProcess, IInv, TypeOK, DoneReasons,
       Handshake, Dead, Running, DoneNeverHitsProcess
  <2>6. Handshake'
    BY <1>6 DEF RecvPoke, PassThrough, MayProcess, IInv, TypeOK, DoneReasons,
       Handshake, Dead, Running, DoneNeverHitsProcess
  <2>7. Running'
    BY <1>6 DEF RecvPoke, PassThrough, MayProcess, IInv, TypeOK, DoneReasons,
       Handshake, Dead, Running, DoneNeverHitsProcess
  <2>8. Withdrawn'
    BY <1>6 DEF RecvPoke, PassThrough, MayProcess, IInv, TypeOK, Withdrawn,
       Running
  <2>9. Tracked'
    BY <1>6 DEF RecvPoke, PassThrough, MayProcess, IInv, TypeOK, Tracked
  <2>10. DoneNeverHitsProcess'
    BY <1>6 DEF RecvPoke, PassThrough, MayProcess, IInv, TypeOK, DoneReasons,
       Handshake, Dead, Running, DoneNeverHitsProcess
  <2>11. NoPanic'
    BY <1>6 DEF RecvPoke, PassThrough, MayProcess, IInv, TypeOK, DoneReasons,
       Handshake, Dead, Running, DoneNeverHitsProcess, NoPanic
  <2>12. InterruptReaches'
    BY <1>6 DEF RecvPoke, PassThrough, MayProcess, IInv, TypeOK,
       InterruptReaches, Running
  <2>13. Verdict'
    BY <1>6 DEF RecvPoke, PassThrough, MayProcess, IInv, TypeOK, Verdict,
       Running, DoneNeverHitsProcess
  <2>14. IdleIsClean'
    BY <1>6 DEF RecvPoke, PassThrough, MayProcess, IInv, TypeOK, IdleIsClean,
       Verdict, Running, DoneReasons, DoneNeverHitsProcess
  <2>15. QED
    BY <2>1, <2>2, <2>3, <2>4, <2>5, <2>6, <2>7, <2>8, <2>9, <2>10, <2>11,
       <2>12, <2>13, <2>14 DEF IInv, TypeOK
<1>7. CASE LimitExpired
  BY <1>7 DEF LimitExpired, MayProcess, IInv, TypeOK, DoneReasons, Handshake,
     Dead, Running, Withdrawn, Tracked, Verdict, DoneNeverHitsProcess, NoPanic,
     InterruptReaches, IdleIsClean
<1>8. CASE RetryExpired
  BY <1>8 DEF RetryExpired, IInv, TypeOK, DoneReasons, Handshake, Dead, Running,
     Withdrawn, Tracked, Verdict, DoneNeverHitsProcess, NoPanic,
     InterruptReaches, IdleIsClean
<1>9. QED
  BY <1>1, <1>2, <1>3, <1>4, <1>5, <1>6, <1>7, <1>8 DEF ReceiveNext

\* The steps of Process and its retry loop preserve the invariant
LEMMA ProcessStep == IInv /\ (ProcessNext) => IInv'
<1> SUFFICES ASSUME IInv, ProcessNext PROVE IInv'
  OBVIOUS
<1> USE RetryAssumption, FlagAssumption, ModeAssumption
<1>1. CASE BeginProcess
  <2>1. WatchTypeOK'
    BY <1>1 DEF BeginProcess, EnterProcess, MayProcess, IInv, TypeOK
  <2>2. LoopTypeOK'
    BY <1>1 DEF BeginProcess, EnterProcess, MayProcess, IInv, TypeOK
  <2>3. SharedTypeOK'
    BY <1>1 DEF BeginProcess, EnterProcess, MayProcess, IInv, TypeOK
  <2>4. EngineTypeOK'
    BY <1>1 DEF BeginProcess, EnterProcess, MayProcess, IInv, TypeOK
  <2>5. DoneReasons'
    BY <1>1 DEF BeginProcess, EnterProcess, MayProcess, IInv, TypeOK,
       DoneReasons, Handshake, Dead, Running, DoneNeverHitsProcess
  <2>6. Handshake'
    BY <1>1 DEF BeginProcess, EnterProcess, MayProcess, IInv, TypeOK,
       DoneReasons, Handshake, Dead, Running, DoneNeverHitsProcess
  <2>7. Running'
    BY <1>1 DEF BeginProcess, EnterProcess, MayProcess, IInv, TypeOK,
       DoneReasons, Handshake, Dead, Running, DoneNeverHitsProcess
  <2>8. Withdrawn'
    BY <1>1 DEF BeginProcess, EnterProcess, MayProcess, IInv, TypeOK, Withdrawn,
       Running
  <2>9. Tracked'
    BY <1>1 DEF BeginProcess, EnterProcess, MayProcess, IInv, TypeOK, Tracked
  <2>10. DoneNeverHitsProcess'
    BY <1>1 DEF BeginProcess, EnterProcess, MayProcess, IInv, TypeOK,
       DoneReasons, Handshake, Dead, Running, DoneNeverHitsProcess
  <2>11. NoPanic'
    BY <1>1 DEF BeginProcess, EnterProcess, MayProcess, IInv, TypeOK,
       DoneReasons, Handshake, Dead, Running, DoneNeverHitsProcess, NoPanic
  <2>12. InterruptReaches'
    BY <1>1 DEF BeginProcess, EnterProcess, MayProcess, IInv, TypeOK,
       InterruptReaches, Running
  <2>13. Verdict'
    BY <1>1 DEF BeginProcess, EnterProcess, MayProcess, IInv, TypeOK, Verdict,
       Running, DoneNeverHitsProcess
  <2>14. IdleIsClean'
    BY <1>1 DEF BeginProcess, EnterProcess, MayProcess, IInv, TypeOK,
       IdleIsClean, Verdict, Running, DoneReasons, DoneNeverHitsProcess
  <2>15. QED
    BY <2>1, <2>2, <2>3, <2>4, <2>5, <2>6, <2>7, <2>8, <2>9, <2>10, <2>11,
       <2>12, <2>13, <2>14 DEF IInv, TypeOK
<1>2. CASE Process
  <2>1. WatchTypeOK'
    BY <1>2 DEF Process, ProcessCtxErr, IInv, TypeOK
  <2>2. LoopTypeOK'
    BY <1>2 DEF Process, ProcessCtxErr, IInv, TypeOK
  <2>3. SharedTypeOK'
    BY <1>2 DEF Process, ProcessCtxErr, IInv, TypeOK
  <2>4. EngineTypeOK'
    BY <1>2 DEF Process, ProcessCtxErr, IInv, TypeOK
  <2>5. DoneReasons'
    BY <1>2 DEF Process, ProcessCtxErr, IInv, TypeOK, DoneReasons, Handshake,
       Dead, Running, DoneNeverHitsProcess
  <2>6. Handshake'
    BY <1>2 DEF Process, ProcessCtxErr, IInv, TypeOK, DoneReasons, Handshake,
       Dead, Running, DoneNeverHitsProcess
  <2>7. Running'
    BY <1>2 DEF Process, ProcessCtxErr, IInv, TypeOK, DoneReasons, Handshake,
       Dead, Running, DoneNeverHitsProcess
  <2>8. Withdrawn'
    BY <1>2 DEF Process, ProcessCtxErr, IInv, TypeOK, Withdrawn, Running
  <2>9. Tracked'
    BY <1>2 DEF Process, ProcessCtxErr, IInv, TypeOK, Tracked
  <2>10. DoneNeverHitsProcess'
    BY <1>2 DEF Process, ProcessCtxErr, IInv, TypeOK, DoneReasons, Handshake,
       Dead, Running, DoneNeverHitsProcess
  <2>11. NoPanic'
    BY <1>2 DEF Process, ProcessCtxErr, IInv, TypeOK, DoneReasons, Handshake,
       Dead, Running, DoneNeverHitsProcess, NoPanic
  <2>12. InterruptReaches'
    BY <1>2 DEF Process, ProcessCtxErr, IInv, TypeOK, InterruptReaches, Running
  <2>13. Verdict'
    BY <1>2 DEF Process, ProcessCtxErr, IInv, TypeOK, Verdict, Running,
       DoneNeverHitsProcess
  <2>14. IdleIsClean'
    BY <1>2 DEF Process, ProcessCtxErr, IInv, TypeOK, IdleIsClean, Verdict,
       Running, DoneReasons, DoneNeverHitsProcess
  <2>15. QED
    BY <2>1, <2>2, <2>3, <2>4, <2>5, <2>6, <2>7, <2>8, <2>9, <2>10, <2>11,
       <2>12, <2>13, <2>14 DEF IInv, TypeOK
<1>3. CASE CheckApplyOK
  BY <1>3 DEF CheckApplyOK, IInv, TypeOK, DoneReasons, Handshake, Dead, Running,
     Withdrawn, Tracked, Verdict, DoneNeverHitsProcess, NoPanic,
     InterruptReaches, IdleIsClean
<1>4. CASE CheckApplyError
  <2>1. WatchTypeOK'
    BY <1>4 DEF CheckApplyError, ProcessCtxErr, IInv, TypeOK
  <2>2. LoopTypeOK'
    BY <1>4 DEF CheckApplyError, ProcessCtxErr, IInv, TypeOK
  <2>3. SharedTypeOK'
    BY <1>4 DEF CheckApplyError, ProcessCtxErr, IInv, TypeOK
  <2>4. EngineTypeOK'
    BY <1>4 DEF CheckApplyError, ProcessCtxErr, IInv, TypeOK
  <2>5. DoneReasons'
    BY <1>4 DEF CheckApplyError, ProcessCtxErr, IInv, TypeOK, DoneReasons,
       Handshake, Dead, Running, DoneNeverHitsProcess
  <2>6. Handshake'
    BY <1>4 DEF CheckApplyError, ProcessCtxErr, IInv, TypeOK, DoneReasons,
       Handshake, Dead, Running, DoneNeverHitsProcess
  <2>7. Running'
    BY <1>4 DEF CheckApplyError, ProcessCtxErr, IInv, TypeOK, DoneReasons,
       Handshake, Dead, Running, DoneNeverHitsProcess
  <2>8. Withdrawn'
    BY <1>4 DEF CheckApplyError, ProcessCtxErr, IInv, TypeOK, Withdrawn, Running
  <2>9. Tracked'
    BY <1>4 DEF CheckApplyError, ProcessCtxErr, IInv, TypeOK, Tracked
  <2>10. DoneNeverHitsProcess'
    BY <1>4 DEF CheckApplyError, ProcessCtxErr, IInv, TypeOK, DoneReasons,
       Handshake, Dead, Running, DoneNeverHitsProcess
  <2>11. NoPanic'
    BY <1>4 DEF CheckApplyError, ProcessCtxErr, IInv, TypeOK, DoneReasons,
       Handshake, Dead, Running, DoneNeverHitsProcess, NoPanic
  <2>12. InterruptReaches'
    BY <1>4 DEF CheckApplyError, ProcessCtxErr, IInv, TypeOK, InterruptReaches,
       Running
  <2>13. Verdict'
    BY <1>4 DEF CheckApplyError, ProcessCtxErr, IInv, TypeOK, Verdict, Running,
       DoneNeverHitsProcess
  <2>14. IdleIsClean'
    BY <1>4 DEF CheckApplyError, ProcessCtxErr, IInv, TypeOK, IdleIsClean,
       Verdict, Running, DoneReasons, DoneNeverHitsProcess
  <2>15. QED
    BY <2>1, <2>2, <2>3, <2>4, <2>5, <2>6, <2>7, <2>8, <2>9, <2>10, <2>11,
       <2>12, <2>13, <2>14 DEF IInv, TypeOK
<1>5. CASE ProcessStores
  <2>1. WatchTypeOK'
    BY <1>5 DEF ProcessStores, IInv, TypeOK
  <2>2. LoopTypeOK'
    BY <1>5 DEF ProcessStores, IInv, TypeOK
  <2>3. SharedTypeOK'
    BY <1>5 DEF ProcessStores, IInv, TypeOK
  <2>4. EngineTypeOK'
    BY <1>5 DEF ProcessStores, IInv, TypeOK
  <2>5. DoneReasons'
    BY <1>5 DEF ProcessStores, IInv, TypeOK, DoneReasons, Handshake, Dead,
       Running, DoneNeverHitsProcess
  <2>6. Handshake'
    BY <1>5 DEF ProcessStores, IInv, TypeOK, DoneReasons, Handshake, Dead,
       Running, DoneNeverHitsProcess
  <2>7. Running'
    BY <1>5 DEF ProcessStores, IInv, TypeOK, DoneReasons, Handshake, Dead,
       Running, DoneNeverHitsProcess
  <2>8. Withdrawn'
    BY <1>5 DEF ProcessStores, IInv, TypeOK, Withdrawn, Running
  <2>9. Tracked'
    BY <1>5 DEF ProcessStores, IInv, TypeOK, Tracked
  <2>10. DoneNeverHitsProcess'
    BY <1>5 DEF ProcessStores, IInv, TypeOK, DoneReasons, Handshake, Dead,
       Running, DoneNeverHitsProcess
  <2>11. NoPanic'
    BY <1>5 DEF ProcessStores, IInv, TypeOK, DoneReasons, Handshake, Dead,
       Running, DoneNeverHitsProcess, NoPanic
  <2>12. InterruptReaches'
    BY <1>5 DEF ProcessStores, IInv, TypeOK, InterruptReaches, Running
  <2>13. Verdict'
    BY <1>5 DEF ProcessStores, IInv, TypeOK, Verdict, Running,
       DoneNeverHitsProcess
  <2>14. IdleIsClean'
    BY <1>5 DEF ProcessStores, IInv, TypeOK, IdleIsClean, Verdict, Running,
       DoneReasons, DoneNeverHitsProcess
  <2>15. QED
    BY <2>1, <2>2, <2>3, <2>4, <2>5, <2>6, <2>7, <2>8, <2>9, <2>10, <2>11,
       <2>12, <2>13, <2>14 DEF IInv, TypeOK
<1>6. CASE ProcessReturns
  <2>1. WatchTypeOK'
    BY <1>6 DEF ProcessReturns, Close, Interrupted, SpendRetry, IInv, TypeOK
  <2>2. LoopTypeOK'
    BY <1>6 DEF ProcessReturns, Close, Interrupted, SpendRetry, IInv, TypeOK
  <2>3. SharedTypeOK'
    <3>1. CheckApplyRetry' \in {Retry} \cup Inherited \cup Nat
      BY <1>6, RetryAssumption DEF ProcessReturns, SpendRetry, IInv, TypeOK
    <3>2. QED
      BY <1>6, <3>1 DEF ProcessReturns, IInv, TypeOK
  <2>4. EngineTypeOK'
    BY <1>6 DEF ProcessReturns, Close, Interrupted, SpendRetry, IInv, TypeOK
  <2>5. DoneReasons'
    BY <1>6 DEF ProcessReturns, Close, Interrupted, SpendRetry, IInv, TypeOK,
       DoneReasons, Handshake, Dead, Running, DoneNeverHitsProcess
  <2>6. Handshake'
    BY <1>6 DEF ProcessReturns, Close, Interrupted, SpendRetry, IInv, TypeOK,
       DoneReasons, Handshake, Dead, Running, DoneNeverHitsProcess
  <2>7. Running'
    BY <1>6 DEF ProcessReturns, Close, Interrupted, SpendRetry, IInv, TypeOK,
       DoneReasons, Handshake, Dead, Running, DoneNeverHitsProcess
  <2>8. Withdrawn'
    BY <1>6 DEF ProcessReturns, Close, Interrupted, SpendRetry, IInv, TypeOK,
       Withdrawn, Running
  <2>9. Tracked'
    BY <1>6 DEF ProcessReturns, Close, Interrupted, SpendRetry, IInv, TypeOK,
       Tracked
  <2>10. DoneNeverHitsProcess'
    BY <1>6 DEF ProcessReturns, Close, Interrupted, SpendRetry, IInv, TypeOK,
       DoneReasons, Handshake, Dead, Running, DoneNeverHitsProcess
  <2>11. NoPanic'
    BY <1>6 DEF ProcessReturns, Close, Interrupted, SpendRetry, IInv, TypeOK,
       DoneReasons, Handshake, Dead, Running, DoneNeverHitsProcess, NoPanic
  <2>12. InterruptReaches'
    BY <1>6 DEF ProcessReturns, Close, Interrupted, SpendRetry, IInv, TypeOK,
       InterruptReaches, Running
  <2>13. Verdict'
    BY <1>6 DEF ProcessReturns, Close, Interrupted, SpendRetry, IInv, TypeOK,
       Verdict, Running, DoneNeverHitsProcess
  <2>14. IdleIsClean'
    BY <1>6 DEF ProcessReturns, Close, Interrupted, SpendRetry, IInv, TypeOK,
       IdleIsClean, Verdict, Running, DoneReasons, DoneNeverHitsProcess
  <2>15. QED
    BY <2>1, <2>2, <2>3, <2>4, <2>5, <2>6, <2>7, <2>8, <2>9, <2>10, <2>11,
       <2>12, <2>13, <2>14 DEF IInv, TypeOK
<1>7. CASE WorkerExit
  BY <1>7 DEF WorkerExit, IInv, TypeOK, DoneReasons, Handshake, Dead, Running,
     Withdrawn, Tracked, Verdict, DoneNeverHitsProcess, NoPanic,
     InterruptReaches, IdleIsClean
<1>8. CASE ProcessGivesUp
  <2>1. WatchTypeOK'
    BY <1>8 DEF ProcessGivesUp, ProcessCtxErr, IInv, TypeOK
  <2>2. LoopTypeOK'
    BY <1>8 DEF ProcessGivesUp, ProcessCtxErr, IInv, TypeOK
  <2>3. SharedTypeOK'
    BY <1>8 DEF ProcessGivesUp, ProcessCtxErr, IInv, TypeOK
  <2>4. EngineTypeOK'
    BY <1>8 DEF ProcessGivesUp, ProcessCtxErr, IInv, TypeOK
  <2>5. DoneReasons'
    BY <1>8 DEF ProcessGivesUp, ProcessCtxErr, IInv, TypeOK, DoneReasons, Handshake,
       Dead, Running, DoneNeverHitsProcess
  <2>6. Handshake'
    BY <1>8 DEF ProcessGivesUp, ProcessCtxErr, IInv, TypeOK, DoneReasons, Handshake,
       Dead, Running, DoneNeverHitsProcess
  <2>7. Running'
    BY <1>8 DEF ProcessGivesUp, ProcessCtxErr, IInv, TypeOK, DoneReasons, Handshake,
       Dead, Running, DoneNeverHitsProcess
  <2>8. Withdrawn'
    BY <1>8 DEF ProcessGivesUp, ProcessCtxErr, IInv, TypeOK, Withdrawn, Running
  <2>9. Tracked'
    BY <1>8 DEF ProcessGivesUp, ProcessCtxErr, IInv, TypeOK, Tracked
  <2>10. DoneNeverHitsProcess'
    BY <1>8 DEF ProcessGivesUp, ProcessCtxErr, IInv, TypeOK, DoneReasons, Handshake,
       Dead, Running, DoneNeverHitsProcess
  <2>11. NoPanic'
    BY <1>8 DEF ProcessGivesUp, ProcessCtxErr, IInv, TypeOK, DoneReasons, Handshake,
       Dead, Running, DoneNeverHitsProcess, NoPanic
  <2>12. InterruptReaches'
    BY <1>8 DEF ProcessGivesUp, ProcessCtxErr, IInv, TypeOK, InterruptReaches, Running
  <2>13. Verdict'
    BY <1>8 DEF ProcessGivesUp, ProcessCtxErr, IInv, TypeOK, Verdict, Running,
       DoneNeverHitsProcess
  <2>14. IdleIsClean'
    BY <1>8 DEF ProcessGivesUp, ProcessCtxErr, IInv, TypeOK, IdleIsClean, Verdict,
       Running, DoneReasons, DoneNeverHitsProcess
  <2>15. QED
    BY <2>1, <2>2, <2>3, <2>4, <2>5, <2>6, <2>7, <2>8, <2>9, <2>10, <2>11,
       <2>12, <2>13, <2>14 DEF IInv, TypeOK
<1>9. CASE ProcessReceives
  <2>1. WatchTypeOK'
    BY <1>9 DEF ProcessReceives, CheckApplyNeeded, IInv, TypeOK
  <2>2. LoopTypeOK'
    BY <1>9 DEF ProcessReceives, CheckApplyNeeded, IInv, TypeOK
  <2>3. SharedTypeOK'
    BY <1>9 DEF ProcessReceives, CheckApplyNeeded, IInv, TypeOK
  <2>4. EngineTypeOK'
    BY <1>9 DEF ProcessReceives, CheckApplyNeeded, IInv, TypeOK
  <2>5. DoneReasons'
    BY <1>9 DEF ProcessReceives, CheckApplyNeeded, IInv, TypeOK, DoneReasons, Handshake,
       Dead, Running, DoneNeverHitsProcess
  <2>6. Handshake'
    BY <1>9 DEF ProcessReceives, CheckApplyNeeded, IInv, TypeOK, DoneReasons, Handshake,
       Dead, Running, DoneNeverHitsProcess
  <2>7. Running'
    BY <1>9 DEF ProcessReceives, CheckApplyNeeded, IInv, TypeOK, DoneReasons, Handshake,
       Dead, Running, DoneNeverHitsProcess
  <2>8. Withdrawn'
    BY <1>9 DEF ProcessReceives, CheckApplyNeeded, IInv, TypeOK, Withdrawn, Running
  <2>9. Tracked'
    <3>1. isStateOK' => isStateOK
      BY <1>9 DEF ProcessReceives, IInv, TypeOK
    <3>2. proc' = "store" /\ Mode = "watch" /\ ~Noop => isStateOK'
      BY <1>9 DEF ProcessReceives, CheckApplyNeeded
    <3>3. UNCHANGED <<watch, noticed, wrong>>
      BY <1>9 DEF ProcessReceives
    <3>4. QED
      BY <3>1, <3>2, <3>3 DEF IInv, Tracked
  <2>10. DoneNeverHitsProcess'
    BY <1>9 DEF ProcessReceives, CheckApplyNeeded, IInv, TypeOK, DoneReasons, Handshake,
       Dead, Running, DoneNeverHitsProcess
  <2>11. NoPanic'
    BY <1>9 DEF ProcessReceives, CheckApplyNeeded, IInv, TypeOK, DoneReasons, Handshake,
       Dead, Running, DoneNeverHitsProcess, NoPanic
  <2>12. InterruptReaches'
    BY <1>9 DEF ProcessReceives, CheckApplyNeeded, IInv, TypeOK, InterruptReaches, Running
  <2>13. Verdict'
    BY <1>9 DEF ProcessReceives, CheckApplyNeeded, IInv, TypeOK, Verdict, Running,
       DoneNeverHitsProcess
  <2>14. IdleIsClean'
    BY <1>9 DEF ProcessReceives, CheckApplyNeeded, IInv, TypeOK, IdleIsClean, Verdict,
       Running, DoneReasons, DoneNeverHitsProcess
  <2>15. QED
    BY <2>1, <2>2, <2>3, <2>4, <2>5, <2>6, <2>7, <2>8, <2>9, <2>10, <2>11,
       <2>12, <2>13, <2>14 DEF IInv, TypeOK
<1>10. QED
  BY <1>1, <1>2, <1>3, <1>4, <1>5, <1>6, <1>7, <1>8, <1>9 DEF ProcessNext

\* The steps of the engine goroutine preserve the invariant
LEMMA EngineStep == IInv /\ (EngineNext) => IInv'
<1> SUFFICES ASSUME IInv, EngineNext PROVE IInv'
  OBVIOUS
<1> USE RetryAssumption, FlagAssumption, ModeAssumption
<1>1. CASE PauseBegin
  <2>1. WatchTypeOK'
    BY <1>1 DEF PauseBegin, IInv, TypeOK
  <2>2. LoopTypeOK'
    BY <1>1 DEF PauseBegin, IInv, TypeOK
  <2>3. SharedTypeOK'
    BY <1>1 DEF PauseBegin, IInv, TypeOK
  <2>4. EngineTypeOK'
    BY <1>1 DEF PauseBegin, IInv, TypeOK
  <2>5. DoneReasons'
    BY <1>1 DEF PauseBegin, IInv, TypeOK, DoneReasons, Handshake, Dead, Running,
       DoneNeverHitsProcess
  <2>6. Handshake'
    BY <1>1 DEF PauseBegin, IInv, TypeOK, DoneReasons, Handshake, Dead, Running,
       DoneNeverHitsProcess
  <2>7. Running'
    BY <1>1 DEF PauseBegin, IInv, TypeOK, DoneReasons, Handshake, Dead, Running,
       DoneNeverHitsProcess
  <2>8. Withdrawn'
    BY <1>1 DEF PauseBegin, IInv, TypeOK, Withdrawn, Running
  <2>9. Tracked'
    BY <1>1 DEF PauseBegin, IInv, TypeOK, Tracked
  <2>10. DoneNeverHitsProcess'
    BY <1>1 DEF PauseBegin, IInv, TypeOK, DoneReasons, Handshake, Dead, Running,
       DoneNeverHitsProcess
  <2>11. NoPanic'
    BY <1>1 DEF PauseBegin, IInv, TypeOK, DoneReasons, Handshake, Dead, Running,
       DoneNeverHitsProcess, NoPanic
  <2>12. InterruptReaches'
    BY <1>1 DEF PauseBegin, IInv, TypeOK, InterruptReaches, Running
  <2>13. Verdict'
    BY <1>1 DEF PauseBegin, IInv, TypeOK, Verdict, Running, DoneNeverHitsProcess
  <2>14. IdleIsClean'
    BY <1>1 DEF PauseBegin, IInv, TypeOK, IdleIsClean, Verdict, Running,
       DoneReasons, DoneNeverHitsProcess
  <2>15. QED
    BY <2>1, <2>2, <2>3, <2>4, <2>5, <2>6, <2>7, <2>8, <2>9, <2>10, <2>11,
       <2>12, <2>13, <2>14 DEF IInv, TypeOK
<1>2. CASE PauseAck
  BY <1>2 DEF PauseAck, PausePoints, IInv, TypeOK, DoneReasons, Handshake, Dead,
     Running, Withdrawn, Tracked, Verdict, DoneNeverHitsProcess, NoPanic,
     InterruptReaches, IdleIsClean
<1>3. CASE PauseErrClosed
  <2>1. WatchTypeOK'
    BY <1>3 DEF PauseErrClosed, IInv, TypeOK
  <2>2. LoopTypeOK'
    BY <1>3 DEF PauseErrClosed, IInv, TypeOK
  <2>3. SharedTypeOK'
    BY <1>3 DEF PauseErrClosed, IInv, TypeOK
  <2>4. EngineTypeOK'
    BY <1>3 DEF PauseErrClosed, IInv, TypeOK
  <2>5. DoneReasons'
    BY <1>3 DEF PauseErrClosed, IInv, TypeOK, DoneReasons, Handshake, Dead,
       Running, DoneNeverHitsProcess
  <2>6. Handshake'
    BY <1>3 DEF PauseErrClosed, IInv, TypeOK, DoneReasons, Handshake, Dead,
       Running, DoneNeverHitsProcess
  <2>7. Running'
    BY <1>3 DEF PauseErrClosed, IInv, TypeOK, DoneReasons, Handshake, Dead,
       Running, DoneNeverHitsProcess
  <2>8. Withdrawn'
    BY <1>3 DEF PauseErrClosed, IInv, TypeOK, Withdrawn, Running
  <2>9. Tracked'
    BY <1>3 DEF PauseErrClosed, IInv, TypeOK, Tracked
  <2>10. DoneNeverHitsProcess'
    BY <1>3 DEF PauseErrClosed, IInv, TypeOK, DoneReasons, Handshake, Dead,
       Running, DoneNeverHitsProcess
  <2>11. NoPanic'
    BY <1>3 DEF PauseErrClosed, IInv, TypeOK, DoneReasons, Handshake, Dead,
       Running, DoneNeverHitsProcess, NoPanic
  <2>12. InterruptReaches'
    BY <1>3 DEF PauseErrClosed, IInv, TypeOK, InterruptReaches, Running
  <2>13. Verdict'
    BY <1>3 DEF PauseErrClosed, IInv, TypeOK, Verdict, Running,
       DoneNeverHitsProcess
  <2>14. IdleIsClean'
    BY <1>3 DEF PauseErrClosed, IInv, TypeOK, IdleIsClean, Verdict, Running,
       DoneReasons, DoneNeverHitsProcess
  <2>15. QED
    BY <2>1, <2>2, <2>3, <2>4, <2>5, <2>6, <2>7, <2>8, <2>9, <2>10, <2>11,
       <2>12, <2>13, <2>14 DEF IInv, TypeOK
<1>4. CASE ResumeBegin
  BY <1>4 DEF ResumeBegin, IInv, TypeOK, DoneReasons, Handshake, Dead, Running,
     Withdrawn, Tracked, Verdict, DoneNeverHitsProcess, NoPanic,
     InterruptReaches, IdleIsClean
<1>5. CASE ResumeAck
  <2>1. WatchTypeOK'
    BY <1>5 DEF ResumeAck, Released, PassThrough, EnterProcess, MayProcess,
       IInv, TypeOK
  <2>2. LoopTypeOK'
    BY <1>5 DEF ResumeAck, Released, PassThrough, EnterProcess, MayProcess,
       IInv, TypeOK
  <2>3. SharedTypeOK'
    <3>1. pokeChan' \in BOOLEAN /\ pCancel' \in BOOLEAN /\ cancelled' \in BOOLEAN
      BY <1>5 DEF ResumeAck, Released, PassThrough, EnterProcess, IInv, TypeOK
    <3>2. UNCHANGED <<wrong, stateVars, metaVars>>
      BY <1>5 DEF ResumeAck
    <3>3. QED
      BY <3>1, <3>2 DEF IInv, TypeOK
  <2>4. EngineTypeOK'
    BY <1>5 DEF ResumeAck, Released, PassThrough, EnterProcess, MayProcess,
       IInv, TypeOK
  <2>5. DoneReasons'
    BY <1>5 DEF ResumeAck, Released, PassThrough, EnterProcess, MayProcess,
       IInv, TypeOK, DoneReasons, Handshake, Dead, Running, DoneNeverHitsProcess
  <2>6. Handshake'
    BY <1>5 DEF ResumeAck, Released, PassThrough, EnterProcess, MayProcess,
       IInv, TypeOK, DoneReasons, Handshake, Dead, Running, DoneNeverHitsProcess
  <2>7. Running'
    BY <1>5 DEF ResumeAck, Released, PassThrough, EnterProcess, MayProcess,
       IInv, TypeOK, DoneReasons, Handshake, Dead, Running, DoneNeverHitsProcess
  <2>8. Withdrawn'
    BY <1>5 DEF ResumeAck, Released, PassThrough, EnterProcess, MayProcess,
       IInv, TypeOK, Withdrawn, Running
  <2>9. Tracked'
    BY <1>5 DEF ResumeAck, Released, PassThrough, EnterProcess, MayProcess,
       IInv, TypeOK, Tracked
  <2>10. DoneNeverHitsProcess'
    BY <1>5 DEF ResumeAck, Released, PassThrough, EnterProcess, MayProcess,
       IInv, TypeOK, DoneReasons, Handshake, Dead, Running, DoneNeverHitsProcess
  <2>11. NoPanic'
    BY <1>5 DEF ResumeAck, Released, PassThrough, EnterProcess, MayProcess,
       IInv, TypeOK, DoneReasons, Handshake, Dead, Running,
       DoneNeverHitsProcess, NoPanic
  <2>12. InterruptReaches'
    BY <1>5 DEF ResumeAck, Released, PassThrough, EnterProcess, MayProcess,
       IInv, TypeOK, InterruptReaches, Running
  <2>13. Verdict'
    BY <1>5 DEF ResumeAck, Released, PassThrough, EnterProcess, MayProcess,
       IInv, TypeOK, Verdict, Running, DoneNeverHitsProcess
  <2>14. IdleIsClean'
    BY <1>5 DEF ResumeAck, Released, PassThrough, EnterProcess, MayProcess,
       IInv, TypeOK, IdleIsClean, Verdict, Running, DoneReasons,
       DoneNeverHitsProcess
  <2>15. QED
    BY <2>1, <2>2, <2>3, <2>4, <2>5, <2>6, <2>7, <2>8, <2>9, <2>10, <2>11,
       <2>12, <2>13, <2>14 DEF IInv, TypeOK
<1>6. CASE ResumeErrClosed
  BY <1>6 DEF ResumeErrClosed, IInv, TypeOK, DoneReasons, Handshake, Dead,
     Running, Withdrawn, Tracked, Verdict, DoneNeverHitsProcess, NoPanic,
     InterruptReaches, IdleIsClean
<1>7. CASE Remove
  BY <1>7 DEF Remove, IInv, TypeOK, DoneReasons, Handshake, Dead, Running,
     Withdrawn, Tracked, Verdict, DoneNeverHitsProcess, NoPanic,
     InterruptReaches, IdleIsClean
<1>8. CASE ResumeClosed
  <2>1. WatchTypeOK'
    BY <1>8 DEF ResumeClosed, Released, PassThrough, EnterProcess, MayProcess,
       IInv, TypeOK
  <2>2. LoopTypeOK'
    BY <1>8 DEF ResumeClosed, Released, PassThrough, EnterProcess, MayProcess,
       IInv, TypeOK
  <2>3. SharedTypeOK'
    BY <1>8 DEF ResumeClosed, Released, PassThrough, EnterProcess, MayProcess,
       IInv, TypeOK
  <2>4. EngineTypeOK'
    BY <1>8 DEF ResumeClosed, Released, PassThrough, EnterProcess, MayProcess,
       IInv, TypeOK
  <2>5. DoneReasons'
    BY <1>8 DEF ResumeClosed, Released, PassThrough, EnterProcess, MayProcess,
       IInv, TypeOK, DoneReasons, Handshake, Dead, Running, DoneNeverHitsProcess
  <2>6. Handshake'
    BY <1>8 DEF ResumeClosed, Released, PassThrough, EnterProcess, MayProcess,
       IInv, TypeOK, DoneReasons, Handshake, Dead, Running, DoneNeverHitsProcess
  <2>7. Running'
    BY <1>8 DEF ResumeClosed, Released, PassThrough, EnterProcess, MayProcess,
       IInv, TypeOK, DoneReasons, Handshake, Dead, Running, DoneNeverHitsProcess
  <2>8. Withdrawn'
    BY <1>8 DEF ResumeClosed, Released, PassThrough, EnterProcess, MayProcess,
       IInv, TypeOK, Withdrawn, Running
  <2>9. Tracked'
    BY <1>8 DEF ResumeClosed, Released, PassThrough, EnterProcess, MayProcess,
       IInv, TypeOK, Tracked
  <2>10. DoneNeverHitsProcess'
    BY <1>8 DEF ResumeClosed, Released, PassThrough, EnterProcess, MayProcess,
       IInv, TypeOK, DoneReasons, Handshake, Dead, Running, DoneNeverHitsProcess
  <2>11. NoPanic'
    BY <1>8 DEF ResumeClosed, Released, PassThrough, EnterProcess, MayProcess,
       IInv, TypeOK, DoneReasons, Handshake, Dead, Running,
       DoneNeverHitsProcess, NoPanic
  <2>12. InterruptReaches'
    BY <1>8 DEF ResumeClosed, Released, PassThrough, EnterProcess, MayProcess,
       IInv, TypeOK, InterruptReaches, Running
  <2>13. Verdict'
    BY <1>8 DEF ResumeClosed, Released, PassThrough, EnterProcess, MayProcess,
       IInv, TypeOK, Verdict, Running, DoneNeverHitsProcess
  <2>14. IdleIsClean'
    BY <1>8 DEF ResumeClosed, Released, PassThrough, EnterProcess, MayProcess,
       IInv, TypeOK, IdleIsClean, Verdict, Running, DoneReasons,
       DoneNeverHitsProcess
  <2>15. QED
    BY <2>1, <2>2, <2>3, <2>4, <2>5, <2>6, <2>7, <2>8, <2>9, <2>10, <2>11,
       <2>12, <2>13, <2>14 DEF IInv, TypeOK
<1>9. CASE Removed
  BY <1>9 DEF Removed, IInv, TypeOK, DoneReasons, Handshake, Dead, Running,
     Withdrawn, Tracked, Verdict, DoneNeverHitsProcess, NoPanic,
     InterruptReaches, IdleIsClean
<1>10. CASE InterruptLatch
  BY <1>10 DEF InterruptLatch, IInv, TypeOK, DoneReasons, Handshake, Dead,
     Running, Withdrawn, Tracked, Verdict, DoneNeverHitsProcess, NoPanic,
     InterruptReaches, IdleIsClean
<1>11. CASE InterruptCancel
  BY <1>11 DEF InterruptCancel, cancelProcess, IInv, TypeOK, DoneReasons,
     Handshake, Dead, Running, Withdrawn, Tracked, Verdict,
     DoneNeverHitsProcess, NoPanic, InterruptReaches, IdleIsClean
<1>12. QED
  BY <1>1, <1>2, <1>3, <1>4, <1>5, <1>6, <1>7, <1>8, <1>9, <1>10, <1>11 DEF
     EngineNext

\* The steps of the multiplexer, the neighbours and the machine preserve the invariant
LEMMA SurroundingStep ==
    IInv /\ (Multiplex \/ Poke \/ SetDownstreamRefresh \/ Change) => IInv'
<1> SUFFICES ASSUME IInv, Multiplex \/ Poke \/ SetDownstreamRefresh \/ Change
             PROVE IInv'
  OBVIOUS
<1> USE RetryAssumption, FlagAssumption, ModeAssumption
<1>1. CASE Multiplex
  <2>1. WatchTypeOK'
    BY <1>1 DEF Multiplex, IInv, TypeOK
  <2>2. LoopTypeOK'
    BY <1>1 DEF Multiplex, IInv, TypeOK
  <2>3. SharedTypeOK'
    BY <1>1 DEF Multiplex, IInv, TypeOK
  <2>4. EngineTypeOK'
    BY <1>1 DEF Multiplex, IInv, TypeOK
  <2>5. DoneReasons'
    BY <1>1 DEF Multiplex, IInv, TypeOK, DoneReasons, Handshake, Dead, Running,
       DoneNeverHitsProcess
  <2>6. Handshake'
    BY <1>1 DEF Multiplex, IInv, TypeOK, DoneReasons, Handshake, Dead, Running,
       DoneNeverHitsProcess
  <2>7. Running'
    BY <1>1 DEF Multiplex, IInv, TypeOK, DoneReasons, Handshake, Dead, Running,
       DoneNeverHitsProcess
  <2>8. Withdrawn'
    BY <1>1 DEF Multiplex, IInv, TypeOK, Withdrawn, Running
  <2>9. Tracked'
    BY <1>1 DEF Multiplex, IInv, TypeOK, Tracked
  <2>10. DoneNeverHitsProcess'
    BY <1>1 DEF Multiplex, IInv, TypeOK, DoneReasons, Handshake, Dead, Running,
       DoneNeverHitsProcess
  <2>11. NoPanic'
    BY <1>1 DEF Multiplex, IInv, TypeOK, DoneReasons, Handshake, Dead, Running,
       DoneNeverHitsProcess, NoPanic
  <2>12. InterruptReaches'
    BY <1>1 DEF Multiplex, IInv, TypeOK, InterruptReaches, Running
  <2>13. Verdict'
    BY <1>1 DEF Multiplex, IInv, TypeOK, Verdict, Running, DoneNeverHitsProcess
  <2>14. IdleIsClean'
    BY <1>1 DEF Multiplex, IInv, TypeOK, IdleIsClean, Verdict, Running,
       DoneReasons, DoneNeverHitsProcess
  <2>15. QED
    BY <2>1, <2>2, <2>3, <2>4, <2>5, <2>6, <2>7, <2>8, <2>9, <2>10, <2>11,
       <2>12, <2>13, <2>14 DEF IInv, TypeOK
<1>2. CASE Poke
  BY <1>2 DEF Poke, IInv, TypeOK, DoneReasons, Handshake, Dead, Running,
     Withdrawn, Tracked, Verdict, DoneNeverHitsProcess, NoPanic,
     InterruptReaches, IdleIsClean
<1>3. CASE Change
  BY <1>3 DEF Change, IInv, TypeOK, DoneReasons, Handshake, Dead, Running,
     Withdrawn, Tracked, Verdict, DoneNeverHitsProcess, NoPanic,
     InterruptReaches, IdleIsClean
<1>4. CASE SetDownstreamRefresh
  BY <1>4 DEF SetDownstreamRefresh, IInv, TypeOK, DoneReasons, Handshake, Dead,
     Running, Withdrawn, Tracked, Verdict, DoneNeverHitsProcess, NoPanic,
     InterruptReaches, IdleIsClean
<1>5. QED
  BY <1>1, <1>2, <1>3, <1>4

LEMMA NextInv == IInv /\ [Next]_vars => IInv'
<1> SUFFICES ASSUME IInv, [Next]_vars PROVE IInv'
  OBVIOUS
<1>1. CASE WatchNext
  BY <1>1, WatchStep
<1>2. CASE ReceiveNext
  BY <1>2, ReceiveStep
<1>3. CASE ProcessNext
  BY <1>3, ProcessStep
<1>4. CASE EngineNext
  BY <1>4, EngineStep
<1>5. CASE Multiplex \/ Poke \/ SetDownstreamRefresh \/ Change
  BY <1>5, SurroundingStep
<1>6. CASE Terminated \/ UNCHANGED vars
  <2>1. TypeOK'
    <3>1. WatchTypeOK' /\ LoopTypeOK'
      BY <1>6 DEF Terminated, IInv, TypeOK
    <3>2. SharedTypeOK'
      BY <1>6 DEF Terminated, IInv, TypeOK
    <3>3. EngineTypeOK'
      BY <1>6 DEF Terminated, IInv, TypeOK
    <3>4. QED
      BY <3>1, <3>2, <3>3 DEF TypeOK
  <2>2. DoneReasons' /\ Handshake' /\ Running' /\ Withdrawn'
    BY <1>6 DEF Terminated, IInv, DoneReasons, Handshake, Running, Withdrawn,
       Dead
  <2>3. Tracked' /\ Verdict' /\ DoneNeverHitsProcess' /\ NoPanic'
    BY <1>6 DEF Terminated, IInv, Tracked, Verdict, DoneNeverHitsProcess,
       NoPanic
  <2>4. InterruptReaches' /\ IdleIsClean'
    BY <1>6 DEF Terminated, IInv, InterruptReaches, IdleIsClean
  <2>5. QED
    BY <2>1, <2>2, <2>3, <2>4 DEF IInv
<1>7. QED
  BY <1>1, <1>2, <1>3, <1>4, <1>5, <1>6 DEF Next

\* The inductive invariant holds in every reachable state
THEOREM Invariance == Spec => []IInv
<1>1. QED
  BY InitInv, NextInv, PTL DEF Spec

\* Every variable of State and of Worker keeps its type
THEOREM TypeCorrect == Spec => []TypeOK
<1>1. IInv => TypeOK
  BY DEF IInv
<1>2. QED
  BY <1>1, Invariance, PTL

\* No CheckApply runs between the return of Pause and the call of Resume, nor
\* while the vertex is removed, whatever the metaparameters
THEOREM PauseIsQuiet == Spec => []NoProcessWhilePaused
<1>1. IInv => NoProcessWhilePaused
  BY DEF IInv, NoProcessWhilePaused, Handshake, Running, Dead
<1>2. QED
  BY <1>1, Invariance, PTL

\* No channel is closed twice and no Pause or Resume meets a vertex in the wrong
\* state, in whatever order failures, pauses and the removal come
THEOREM NeverPanics == Spec => []NoPanic
<1>1. IInv => NoPanic
  BY DEF IInv
<1>2. QED
  BY <1>1, Invariance, PTL

\* doneCtx is only cancelled when no Process runs and none will run again
THEOREM DoneAfterProcess == Spec => []DoneNeverHitsProcess
<1>1. IInv => DoneNeverHitsProcess
  BY DEF IInv
<1>2. QED
  BY <1>1, Invariance, PTL

\* A Watch that restarts never runs next to a Process
THEOREM RestartIsAlone == Spec => []RestartNeverOverlaps
<1>1. IInv => RestartNeverOverlaps
  BY DEF IInv, RestartNeverOverlaps, Withdrawn, Running, DoneNeverHitsProcess
<1>2. QED
  BY <1>1, Invariance, PTL

\* No completing Process hides a change that Watch has seen
THEOREM ChangesAreTracked == Spec => []NoSwallowedChange
<1>1. IInv => NoSwallowedChange
  BY DEF IInv, NoSwallowedChange, Tracked
<1>2. QED
  BY <1>1, Invariance, PTL

\* A live vertex goes idle and dirty only when something will wake it
THEOREM IdleVertexIsClean == Spec => []IdleIsClean
<1>1. IInv => IdleIsClean
  BY DEF IInv
<1>2. QED
  BY <1>1, Invariance, PTL

\* After SoftInterrupt no CheckApply runs on a live context
THEOREM InterruptIsComplete == Spec => []InterruptReaches
<1>1. IInv => InterruptReaches
  BY DEF IInv
<1>2. QED
  BY <1>1, Invariance, PTL

\* Only the end of a failed Process spends a retry or closes processDone
LEMMA OnlyProcessReturns ==
    ASSUME IInv, [Next]_vars, RetryIsSpent \/ ProcessFails
    PROVE  ProcessReturns
<1>0. CheckApplyRetry \in Int
  BY RetryAssumption DEF IInv, TypeOK
<1> USE <1>0 DEF RetryIsSpent, ProcessFails
<1>1. ASSUME WatchNext PROVE FALSE
  BY <1>1 DEF WatchNext, WatchDelayExpired, WatchExit, WatchFail,
     WatchCancelsProcess, WatchSkipsSentinel, PollTick, IInv, TypeOK
<1>2. ASSUME ReceiveNext PROVE FALSE
  <2>1. CheckApplyRetry' = CheckApplyRetry
    BY <1>2 DEF ReceiveNext, RecvEvent, RecvEventWhileWaiting, RecvWatchRestart,
       RecvWatchError, RecvClosed, RecvPoke, LimitExpired, RetryExpired
  <2>2. CASE RecvWatchError
    BY <2>1, <2>2 DEF RecvWatchError, Close, IInv, TypeOK
  <2>3. CASE RecvClosed
    BY <2>1, <2>3 DEF RecvClosed, Close, IInv, TypeOK
  <2>4. CASE ~RecvWatchError /\ ~RecvClosed
    <3>1. doneChans' = doneChans
      BY <1>2, <2>4 DEF ReceiveNext, RecvEvent, RecvEventWhileWaiting,
         RecvWatchRestart, RecvPoke, LimitExpired, RetryExpired
    <3>2. QED
      BY <2>1, <3>1 DEF IInv, TypeOK
  <2>5. QED
    BY <2>2, <2>3, <2>4
<1>3. ASSUME ProcessNext, ~ProcessReturns PROVE FALSE
  <2>1. UNCHANGED <<CheckApplyRetry, doneChans>>
    BY <1>3 DEF ProcessNext, BeginProcess, Process, ProcessGivesUp,
       ProcessReceives, CheckApplyOK, CheckApplyError, ProcessStores, WorkerExit
  <2>2. QED
    BY <2>1 DEF IInv, TypeOK
<1>4. ASSUME EngineNext PROVE FALSE
  <2>1. CheckApplyRetry' = CheckApplyRetry
    BY <1>4 DEF EngineNext, PauseBegin, PauseAck, PauseErrClosed, ResumeBegin,
       ResumeAck, ResumeErrClosed, Remove, ResumeClosed, Removed,
       InterruptLatch, InterruptCancel
  <2>2. doneChans' \subseteq doneChans \cup {"remove"}
    BY <1>4 DEF EngineNext, PauseBegin, PauseAck, PauseErrClosed, ResumeBegin,
       ResumeAck, ResumeErrClosed, Remove, ResumeClosed, Removed,
       InterruptLatch, InterruptCancel
  <2>3. QED
    BY <2>1, <2>2 DEF IInv, TypeOK
<1>5. ASSUME Multiplex \/ Poke \/ SetDownstreamRefresh \/ Change \/ Terminated
               \/ UNCHANGED vars
      PROVE  FALSE
  BY <1>5 DEF Multiplex, Poke, SetDownstreamRefresh, Change, Terminated, IInv, TypeOK
<1>6. QED
  BY <1>1, <1>2, <1>3, <1>4, <1>5 DEF Next

\* An interrupted Process never costs a retry, nor fails the vertex
THEOREM RetriesAreEarned == Spec => RetryOnlyOnFailure
<1>1. IInv /\ [Next]_vars => [RetryIsSpent \/ ProcessFails => genuine]_vars
  <2> SUFFICES ASSUME IInv, [Next]_vars, RetryIsSpent \/ ProcessFails
               PROVE  genuine
    OBVIOUS
  <2>1. ProcessReturns
    BY OnlyProcessReturns
  <2>2. proc = "return" /\ result = "error" /\ ~Interrupted
    BY <2>1, RetryAssumption
    DEF ProcessReturns, SpendRetry, RetryIsSpent, ProcessFails, IInv, TypeOK
  <2>3. QED
    BY <2>2 DEF Interrupted, IInv, Verdict, DoneNeverHitsProcess
<1>2. QED
  BY <1>1, Invariance, PTL DEF Spec, RetryOnlyOnFailure
-----------------------------------------------------------------------------
\* Worker implements Vertex: a step that no variable of Vertex shows
LEMMA Unseen ==
    ASSUME UNCHANGED <<HeldAs, WorkAs, stateVars, Dead, interrupt # "off">>
    PROVE  [Contract!Next]_(Contract!vars)
  BY DEF Contract!vars

LEMMA WatchRefines == IInv /\ WatchNext => [Contract!Next]_(Contract!vars)
<1> SUFFICES ASSUME IInv, WatchNext PROVE [Contract!Next]_(Contract!vars)
  OBVIOUS
<1>1. UNCHANGED <<loopVars, engineVars, stateVars, interrupt>>
  BY DEF WatchNext, WatchDelayExpired, WatchExit, WatchFail,
     WatchCancelsProcess, WatchSkipsSentinel, PollTick
<1>2. QED
  BY <1>1, Unseen DEF HeldAs, WorkAs, Dead

LEMMA SurroundingRefines ==
    ASSUME IInv,
           Multiplex \/ Poke \/ SetDownstreamRefresh \/ Change \/ Terminated
             \/ UNCHANGED vars
    PROVE  [Contract!Next]_(Contract!vars)
<1>1. CASE SetDownstreamRefresh
  <2>1. UNCHANGED <<loopVars, engineVars, isStateOK, refreshing, interrupt>>
        /\ refresh' = TRUE
    BY <1>1 DEF SetDownstreamRefresh
  <2>2. UNCHANGED <<HeldAs, WorkAs, Dead, interrupt # "off">>
    BY <2>1 DEF HeldAs, WorkAs, Dead
  <2>3. QED
    BY <2>1, <2>2 DEF Contract!Next, Contract!Tell
<1>2. CASE ~SetDownstreamRefresh
  <2>1. UNCHANGED <<loopVars, engineVars, stateVars, interrupt>>
    BY <1>2 DEF Multiplex, Poke, Change, Terminated
  <2>2. QED
    BY <2>1, Unseen DEF HeldAs, WorkAs, Dead
<1>3. QED
  BY <1>1, <1>2

LEMMA ReceiveRefines == IInv /\ ReceiveNext => [Contract!Next]_(Contract!vars)
<1> SUFFICES ASSUME IInv, ReceiveNext PROVE [Contract!Next]_(Contract!vars)
  OBVIOUS
<1>1. CASE RecvEvent
  <2>1. WorkAs = "idle" /\ WorkAs' = "idle" /\ isStateOK' = FALSE
    BY <1>1 DEF RecvEvent, setDirty, PassThrough, WorkAs
  <2>2. UNCHANGED <<HeldAs, refresh, refreshing, Dead, interrupt # "off">>
    BY <1>1 DEF RecvEvent, setDirty, PassThrough, HeldAs, Dead
  <2>3. QED
    BY <2>1, <2>2 DEF Contract!Next, Contract!Mark, Contract!about
<1>2. CASE RecvEventWhileWaiting
  <2>1. WorkAs = "idle" /\ WorkAs' = "idle" /\ isStateOK' = FALSE
    BY <1>2 DEF RecvEventWhileWaiting, setDirty, WorkAs
  <2>2. UNCHANGED <<HeldAs, refresh, refreshing, Dead, interrupt # "off">>
    BY <1>2 DEF RecvEventWhileWaiting, setDirty, HeldAs, Dead
  <2>3. QED
    BY <2>1, <2>2 DEF Contract!Next, Contract!Mark, Contract!about
<1>3. CASE RecvWatchError \/ RecvClosed
  <2>1. WorkAs = "idle" /\ WorkAs' = "idle" /\ Dead'
    BY <1>3 DEF RecvWatchError, RecvClosed, WorkAs, Dead
  <2>2. UNCHANGED <<HeldAs, stateVars, interrupt # "off">>
    BY <1>3 DEF RecvWatchError, RecvClosed, HeldAs
  <2>3. Dead' = TRUE
    BY <2>1 DEF Dead
  <2>4. QED
    BY <2>1, <2>2, <2>3 DEF Contract!Next, Contract!Die, Contract!about
<1>4. CASE RecvWatchRestart \/ RecvPoke \/ LimitExpired \/ RetryExpired
  <2>1. UNCHANGED <<HeldAs, WorkAs, stateVars, Dead, interrupt # "off">>
    BY <1>4 DEF RecvWatchRestart, RecvPoke, PassThrough, LimitExpired,
       RetryExpired, HeldAs, WorkAs, Dead
  <2>2. QED
    BY <2>1, Unseen
<1>5. QED
  BY <1>1, <1>2, <1>3, <1>4 DEF ReceiveNext

\* A Process begins only on a vertex that is neither held nor dead
LEMMA BeginRefines ==
    ASSUME IInv, proc \notin Processing, proc' = "process", ~Dead,
           UNCHANGED <<failed, closed, stateVars, interrupt>>,
           HeldAs = "no", HeldAs' = "no"
    PROVE  [Contract!Next]_(Contract!vars)
<1>1. WorkAs = "idle" /\ WorkAs' = "process"
  BY DEF WorkAs
<1>2. Dead = FALSE /\ Dead' = Dead
  BY DEF Dead
<1>3. QED
  BY <1>1, <1>2 DEF Contract!Next, Contract!Begin, Contract!about

LEMMA ProcessRefines == IInv /\ ProcessNext => [Contract!Next]_(Contract!vars)
<1> SUFFICES ASSUME IInv, ProcessNext PROVE [Contract!Next]_(Contract!vars)
  OBVIOUS
<1>1. CASE BeginProcess
  <2>1. CASE proc' = "process"
    <3>1. ~Dead /\ proc = "check"
      BY <1>1, <2>1 DEF BeginProcess, EnterProcess, MayProcess, Dead
    <3>2. HeldAs = "no" /\ HeldAs' = "no"
      BY <1>1, <3>1 DEF BeginProcess, IInv, Handshake, TypeOK, HeldAs
    <3>3. UNCHANGED <<failed, closed, stateVars, interrupt>>
      BY <1>1 DEF BeginProcess
    <3>4. QED
      BY <2>1, <3>1, <3>2, <3>3, BeginRefines
  <2>2. CASE proc' # "process"
    <3>1. UNCHANGED <<HeldAs, WorkAs, stateVars, Dead, interrupt # "off">>
      BY <1>1, <2>2 DEF BeginProcess, EnterProcess, HeldAs, WorkAs, Dead
    <3>2. QED
      BY <3>1, Unseen
  <2>3. QED
    BY <2>1, <2>2
<1>2. CASE Process
  <2>1. UNCHANGED <<HeldAs, stateVars, Dead, interrupt # "off">>
    BY <1>2 DEF Process, HeldAs, Dead
  <2>2. WorkAs = "process"
        /\ WorkAs' = IF interrupt # "off" THEN "return" ELSE "receive"
    BY <1>2 DEF Process, WorkAs
  <2>3. QED
    BY <2>1, <2>2 DEF Contract!Next, Contract!Enter, Contract!about
<1>3. CASE ProcessGivesUp \/ CheckApplyError
  <2>1. WorkAs \in {"receive", "checkapply", "store"} /\ WorkAs' = "return"
    BY <1>3 DEF ProcessGivesUp, CheckApplyError, WorkAs
  <2>2. UNCHANGED <<HeldAs, refresh, Dead, interrupt # "off">> /\ refreshing' = FALSE
    BY <1>3 DEF ProcessGivesUp, CheckApplyError, HeldAs, Dead
  <2>3. isStateOK' = isStateOK \/ (WorkAs = "receive" /\ isStateOK' = FALSE)
    BY <1>3 DEF ProcessGivesUp, CheckApplyError, WorkAs, IInv, TypeOK
  <2>4. isStateOK' \in {isStateOK, isStateOK /\ WorkAs # "receive"}
    BY <2>3 DEF IInv, TypeOK
  <2>5. QED
    BY <2>1, <2>2, <2>4 DEF Contract!Next, Contract!Fail
<1>4. CASE ProcessReceives
  <2>1. UNCHANGED <<HeldAs, refresh, Dead, interrupt # "off">>
        /\ refreshing' = refresh /\ isStateOK' \in {isStateOK, FALSE}
    BY <1>4 DEF ProcessReceives, HeldAs, Dead
  <2>2. CASE CheckApplyNeeded(~isStateOK', refresh)
    <3>1. WorkAs = "receive" /\ WorkAs' = "checkapply"
      BY <1>4, <2>2 DEF ProcessReceives, WorkAs
    <3>2. QED
      BY <2>1, <2>2, <3>1 DEF CheckApplyNeeded, Contract!Next, Contract!Apply
  <2>3. CASE ~CheckApplyNeeded(~isStateOK', refresh)
    <3>1. WorkAs = "receive" /\ WorkAs' = "store"
      BY <1>4, <2>3 DEF ProcessReceives, WorkAs
    <3>2. QED
      BY <2>1, <2>3, <3>1 DEF CheckApplyNeeded, Contract!Next, Contract!Skip
  <2>4. QED
    BY <2>2, <2>3
<1>5. CASE CheckApplyOK
  <2>1. WorkAs = "checkapply" /\ WorkAs' = "store"
    BY <1>5 DEF CheckApplyOK, WorkAs
  <2>2. UNCHANGED <<HeldAs, stateVars, Dead, interrupt # "off">>
    BY <1>5 DEF CheckApplyOK, HeldAs, Dead
  <2>3. QED
    BY <2>1, <2>2 DEF Contract!Next, Contract!Applied, Contract!about
<1>6. CASE ProcessStores
  <2>1. WorkAs = "store" /\ WorkAs' = "return"
    BY <1>6 DEF ProcessStores, WorkAs
  <2>2. UNCHANGED <<HeldAs, Dead, interrupt # "off">>
    BY <1>6 DEF ProcessStores, HeldAs, Dead
  <2>3. QED
    BY <1>6, <2>1, <2>2 DEF ProcessStores, Contract!Next, Contract!Record
<1>7. CASE ProcessReturns
  <2>1. WorkAs = "return" /\ WorkAs' = "idle"
    BY <1>7 DEF ProcessReturns, WorkAs
  <2>2. UNCHANGED <<HeldAs, stateVars, interrupt # "off">>
    BY <1>7 DEF ProcessReturns, HeldAs
  <2>3. Dead' = Dead \/ Dead' = TRUE
    BY <1>7 DEF ProcessReturns, Dead
  <2>4. QED
    BY <2>1, <2>2, <2>3 DEF Contract!Next, Contract!Finish, Contract!about
<1>8. CASE WorkerExit
  <2>1. UNCHANGED <<HeldAs, WorkAs, stateVars, Dead, interrupt # "off">>
    BY <1>8 DEF WorkerExit, HeldAs, WorkAs, Dead
  <2>2. QED
    BY <2>1, Unseen
<1>9. QED
  BY <1>1, <1>2, <1>3, <1>4, <1>5, <1>6, <1>7, <1>8 DEF ProcessNext

LEMMA EngineRefines == IInv /\ EngineNext => [Contract!Next]_(Contract!vars)
<1> SUFFICES ASSUME IInv, EngineNext PROVE [Contract!Next]_(Contract!vars)
  OBVIOUS
<1>1. CASE PauseBegin \/ PauseAck \/ PauseErrClosed
  <2>1. UNCHANGED <<stateVars, Dead, interrupt # "off">>
    BY <1>1 DEF PauseBegin, PauseAck, PauseErrClosed, PausePoints, Dead
  <2>2. CASE engine' = "paused"
    <3>1. HeldAs = "no" /\ HeldAs' = "yes"
      BY <1>1, <2>2 DEF PauseBegin, PauseAck, PauseErrClosed, HeldAs
    <3>2. WorkAs = "idle" /\ WorkAs' = "idle"
      BY <1>1, <2>2 DEF PauseBegin, PauseAck, PauseErrClosed, PausePoints, WorkAs,
         IInv, Handshake, DoneNeverHitsProcess
    <3>3. QED
      BY <2>1, <3>1, <3>2 DEF Contract!Next, Contract!Pause, Contract!about
  <2>3. CASE engine' # "paused"
    <3>1. UNCHANGED <<HeldAs, WorkAs>>
      BY <1>1, <2>3 DEF PauseBegin, PauseAck, PauseErrClosed, HeldAs, WorkAs
    <3>2. QED
      BY <2>1, <3>1, Unseen
  <2>4. QED
    BY <2>2, <2>3
<1>2. CASE ResumeBegin
  <2>1. HeldAs = "yes" /\ HeldAs' = "no"
    BY <1>2 DEF ResumeBegin, HeldAs
  <2>2. UNCHANGED <<WorkAs, stateVars, Dead, interrupt # "off">>
    BY <1>2 DEF ResumeBegin, WorkAs, Dead
  <2>3. QED
    BY <2>1, <2>2 DEF Contract!Next, Contract!Resume, Contract!about
<1>3. CASE ResumeAck
  <2>1. CASE proc' = "process"
    <3>1. ~Dead /\ proc = "paused"
      BY <1>3, <2>1 DEF ResumeAck, Released, PassThrough, EnterProcess, MayProcess,
         Dead, IInv, TypeOK
    <3>2. HeldAs = "no" /\ HeldAs' = "no"
      BY <1>3 DEF ResumeAck, HeldAs
    <3>3. UNCHANGED <<failed, closed, stateVars, interrupt>>
      BY <1>3 DEF ResumeAck
    <3>4. QED
      BY <2>1, <3>1, <3>2, <3>3, BeginRefines
  <2>2. CASE proc' # "process"
    <3>1. UNCHANGED <<HeldAs, WorkAs, stateVars, Dead, interrupt # "off">>
      BY <1>3, <2>2 DEF ResumeAck, Released, PassThrough, EnterProcess, HeldAs,
         WorkAs, Dead
    <3>2. QED
      BY <3>1, Unseen
  <2>3. QED
    BY <2>1, <2>2
<1>4. CASE ResumeErrClosed
  <2>1. UNCHANGED <<HeldAs, WorkAs, stateVars, Dead, interrupt # "off">>
    BY <1>4 DEF ResumeErrClosed, HeldAs, WorkAs, Dead
  <2>2. QED
    BY <2>1, Unseen
<1>5. CASE Remove
  <2>1. HeldAs = "yes" /\ HeldAs' = "end"
    BY <1>5 DEF Remove, HeldAs
  <2>2. UNCHANGED <<WorkAs, stateVars, Dead, interrupt # "off">>
    BY <1>5 DEF Remove, WorkAs, Dead
  <2>3. QED
    BY <2>1, <2>2 DEF Contract!Next, Contract!Remove, Contract!about
<1>6. CASE ResumeClosed
  <2>1. WorkAs = "idle" /\ WorkAs' = "idle"
    BY <1>6 DEF ResumeClosed, Released, PassThrough, EnterProcess, MayProcess, WorkAs
  <2>2. UNCHANGED <<HeldAs, stateVars, interrupt # "off">>
    BY <1>6 DEF ResumeClosed, HeldAs
  <2>3. Dead' = TRUE
    BY <1>6 DEF ResumeClosed, Dead
  <2>4. QED
    BY <2>1, <2>2, <2>3 DEF Contract!Next, Contract!Die, Contract!about
<1>7. CASE Removed
  <2>1. HeldAs = "end" /\ HeldAs' = "gone" /\ Dead
    BY <1>7 DEF Removed, HeldAs, Dead
  <2>2. UNCHANGED <<WorkAs, stateVars, Dead, interrupt # "off">>
    BY <1>7 DEF Removed, WorkAs, Dead
  <2>3. QED
    BY <2>1, <2>2 DEF Contract!Next, Contract!Gone, Contract!about
<1>8. CASE InterruptLatch
  <2>1. UNCHANGED <<HeldAs, WorkAs, stateVars, Dead>>
    BY <1>8 DEF InterruptLatch, HeldAs, WorkAs, Dead
  <2>2. (interrupt # "off")' = TRUE
    BY <1>8 DEF InterruptLatch
  <2>3. QED
    BY <2>1, <2>2 DEF Contract!Next, Contract!Stop, Contract!about
<1>9. CASE InterruptCancel
  <2>1. UNCHANGED <<HeldAs, WorkAs, stateVars, Dead, interrupt # "off">>
    BY <1>9 DEF InterruptCancel, HeldAs, WorkAs, Dead
  <2>2. QED
    BY <2>1, Unseen
<1>10. QED
  BY <1>1, <1>2, <1>3, <1>4, <1>5, <1>6, <1>7, <1>8, <1>9 DEF EngineNext

\* For every setting of the metaparameters a Worker is a Vertex: every step of any
\* of its goroutines is a step of Vertex, or one that the engine cannot see
THEOREM Refinement == Spec => IsVertex
<1>1. Init => Contract!Init
  BY DEF Init, Contract!Init, HeldAs, WorkAs, Dead
<1>2. IInv /\ [Next]_vars => [Contract!Next]_(Contract!vars)
  BY WatchRefines, ReceiveRefines, ProcessRefines, EngineRefines,
     SurroundingRefines DEF Next
<1>3. QED
  BY <1>1, <1>2, Invariance, PTL DEF Spec, IsVertex, Contract!Spec
=============================================================================

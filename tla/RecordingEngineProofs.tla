----------------------- MODULE RecordingEngineProofs -----------------------
(***************************************************************************)
(* Machine-checked proofs about RecordingEngine, for every value of the    *)
(* deadlines.                                                              *)
(***************************************************************************)
EXTENDS RecordingEngine, TLAPS

(* Before the handle exists, and when it never came to exist, there is no  *)
(* worker and no process.                                                  *)
BirthInv ==
  /\ wpc = "none" => /\ cpc \in {"new", "closed"}
                     /\ ff = "none" /\ file = "none" /\ ~reaped
  /\ wpc # "none" => cpc # "new" /\ ff # "none"
  /\ cpc = "new" => result = "none" /\ wpc = "none" /\ state = "running"
                    /\ ~indexed
  /\ cpc \in {"new", "live", "flagged"} => elapsed = 0
  /\ cpc \in {"flagged", "waiting", "killed", "closing"} => stopFlag
  /\ cpc \in {"waiting", "killed", "closing", "closed"} => state = "stopped"
  /\ cpc \in {"live", "flagged", "waiting", "killed", "closing"} => file # "none"

(* What is settled at each stage of the worker.                            *)
WorkerInv ==
  /\ wpc \in {"none", "source", "first", "loop", "catchup", "capture", "write"} =>
       outcome = "none"
  /\ wpc \in {"finalize", "exitwait", "reaping", "store", "done"} => outcome # "none"
  /\ wpc \in {"exitwait", "reaping", "store", "done"} =>
       ~stdinOpen /\ exitMode # "none"
  /\ wpc \notin {"exitwait", "reaping", "store", "done"} =>
       exitMode = "none" /\ "worker" \notin killers
  /\ wpc \in {"source", "first", "loop", "catchup", "capture", "write", "finalize"} =>
       stdinOpen
  /\ stdinOpen => ff # "ok"
  /\ wpc = "exitwait" => wclock <= WaitLimit
  /\ wpc = "reaping" <=> childLock = "worker"
  /\ wpc = "reaping" => ff \in Exited \cup {"dying"} /\ "worker" \in killers
  /\ wpc = "exitwait" => "worker" \notin killers
  /\ wpc \in {"store", "done"} <=> reaped
  /\ reaped => ff \in Exited
  /\ outcome = "ok" => stopFlag

(* After a failed write or flush ffmpeg cannot end with success any more,  *)
(* so its exit always gives a reason.                                      *)
BrokenPipeInv ==
  /\ outcome = "write" \/ exitMode = "write_error" => ff \in {"closing", "dying", "bad"}
  /\ outcome = "write" => exitMode \in {"none", "write_error"}
  /\ lost <=> exitMode = "write_error"

(* The chain from the exit status to the answer of stop().                 *)
AnswerInv ==
  /\ ff = "ok" => file = "complete"
  /\ wresult \in Answers \cup {"none"}
  /\ wresult = "ok" => ff = "ok" /\ ~lost /\ outcome = "ok"
  /\ wresult # "none" /\ outcome \in {"capture", "fatal"} => wresult = outcome
  /\ wresult # "none" /\ outcome = "write" => wresult \in {"write", "exit"}
  /\ wresult = "write" => lost /\ "worker" \in killers
  /\ wresult = "exit" => ff = "bad" /\ "worker" \notin killers
  /\ wresult = "overdue" => ~lost /\ "worker" \in killers
  /\ result \in Answers => result = wresult /\ "stop" \notin killers
  /\ result = "dropped" => via = "drop"
  /\ indexed => result = "ok" /\ cpc = "closed"

(* A stop that gives up waiting has killed ffmpeg first, and any other     *)
(* answer comes from a worker that has reaped it.                          *)
KilledInv ==
  /\ cpc = "killed" => ff \in Exited \cup {"dying"}
  /\ cpc \in {"new", "live", "flagged", "waiting"} => "stop" \notin killers
  /\ cpc \in {"closing", "closed"} => ff \in Exited \cup {"dying", "none"}

(* The deadlines: how long stop() has been running at each stage.          *)
ClockInv ==
  /\ cpc = "waiting" => cclock = elapsed /\ cclock <= StopDeadline
  /\ cpc = "killed" => cclock <= KillGrace /\ elapsed <= StopDeadline + cclock

IInv == TypeOK /\ BirthInv /\ WorkerInv /\ BrokenPipeInv /\ AnswerInv /\ KilledInv

USE DeadlinesAssumption
    DEF owner, worker, pipe, child, disk, Exited, Deaf, WaitLimit, StopLimit,
        IsFlag, OwnerPcs, WorkerPcs, Answers, Results

(* What the worker returns, by the way its loop and ffmpeg ended.          *)
LEMMA WorkerResultFacts ==
  ASSUME outcome \in {"ok", "capture", "write", "fatal"},
         NEW timedOut \in BOOLEAN
  PROVE  /\ WorkerResult(timedOut) \in Answers
         /\ outcome \in {"capture", "fatal"} => WorkerResult(timedOut) = outcome
         /\ outcome = "write" /\ exitMode = "write_error" =>
              WorkerResult(timedOut) \in {"write", "exit"}
         /\ WorkerResult(timedOut) = "write" =>
              exitMode = "write_error" /\ (ff = "bad" => timedOut)
         /\ WorkerResult(timedOut) = "exit" => ff = "bad" /\ ~timedOut
         /\ WorkerResult(timedOut) = "overdue" =>
              timedOut /\ exitMode # "write_error"
         /\ WorkerResult(timedOut) = "ok" =>
              /\ outcome \in {"ok", "write"} /\ exitMode # "write_error"
              /\ ff # "bad" /\ ~timedOut
<1>1. CASE outcome \in {"capture", "fatal"}
  BY <1>1 DEF WorkerResult
<1>2. CASE outcome \in {"ok", "write"} /\ timedOut
  BY <1>2 DEF WorkerResult
<1>3. CASE outcome \in {"ok", "write"} /\ ~timedOut
  BY <1>3 DEF WorkerResult
<1> QED
  BY <1>1, <1>2, <1>3

(* IInv is inductive: one case per action.                                 *)
LEMMA InductiveInvariant == Spec => []IInv
<1>1. Init => IInv
  BY DEF Init, IInv, TypeOK, BirthInv, WorkerInv, BrokenPipeInv, AnswerInv,
     KilledInv
<1>2. IInv /\ [Next]_vars => IInv'
  <2> SUFFICES ASSUME IInv, [Next]_vars
               PROVE  IInv'
    OBVIOUS
  <2> USE DEF IInv, TypeOK, BirthInv, WorkerInv, BrokenPipeInv, AnswerInv,
     KilledInv
  <2>1. CASE Start
    BY <2>1 DEF Start
  <2>2. CASE StartFails
    BY <2>2 DEF StartFails
  <2>3. CASE Pause
    BY <2>3 DEF Pause, Transition
  <2>4. CASE Resume
    BY <2>4 DEF Resume, Transition
  <2>5. CASE RaiseStopFlag
    BY <2>5 DEF RaiseStopFlag
  <2>6. CASE StoreStopped
    BY <2>6 DEF StoreStopped
  <2>7. CASE JoinWorker
    BY <2>7 DEF JoinWorker, Return
  <2>8. CASE JoinAfterKill
    BY <2>8 DEF JoinAfterKill, Return
  <2>9. CASE KillHungFfmpeg
    BY <2>9 DEF KillHungFfmpeg, KillChild, StopDeadlineOver
  <2>10. CASE Detach
    BY <2>10 DEF Detach, Return, KillGraceOver
  <2>11. CASE Tidy
    <3>1. CASE result = "ok" /\ file = "complete"
      BY <2>11, <3>1 DEF Tidy
    <3>2. CASE ~(result = "ok" /\ file = "complete")
      <4>1. indexed' = FALSE
        BY <2>11, <3>2 DEF Tidy
      <4> QED
        BY <2>11, <3>2, <4>1 DEF Tidy
    <3> QED
      BY <3>1, <3>2
  <2>12. CASE StartSource
    BY <2>12 DEF StartSource
  <2>13. CASE WriteFirst
    BY <2>13 DEF WriteFirst, WriteFrame
  <2>14. CASE NextSlot
    BY <2>14 DEF NextSlot
  <2>15. CASE RepeatPrevious
    BY <2>15 DEF RepeatPrevious, WriteFrame
  <2>16. CASE WriteCaptured
    BY <2>16 DEF WriteCaptured, WriteFrame
  <2>17. CASE FlushAndClose
    BY <2>17 DEF FlushAndClose, CloseStdin
  <2>18. CASE FlushFails
    BY <2>18 DEF FlushFails, CloseStdin
  <2>19. CASE DropBufferAndClose
    BY <2>19 DEF DropBufferAndClose, CloseStdin
  <2>20. CASE DropProcess
    BY <2>20 DEF DropProcess, KillChild
  <2>21. CASE FfmpegExitSeen
    <3>1. outcome \in {"ok", "capture", "write", "fatal"}
      BY <2>21 DEF FfmpegExitSeen
    <3>2. /\ wresult' \in Answers
          /\ outcome \in {"capture", "fatal"} => wresult' = outcome
          /\ outcome = "write" /\ exitMode = "write_error" => wresult' \in {"write", "exit"}
          /\ wresult' = "write" => exitMode = "write_error" /\ ff # "bad"
          /\ wresult' = "exit" => ff = "bad"
          /\ wresult' # "overdue"
          /\ wresult' = "ok" => /\ outcome \in {"ok", "write"}
                                /\ exitMode # "write_error" /\ ff # "bad"
      BY <2>21, <3>1, WorkerResultFacts, FALSE \in BOOLEAN, Zenon DEF FfmpegExitSeen
    <3>3. /\ wpc = "exitwait" /\ wpc' = "store" /\ ff \in Exited
          /\ reaped' = TRUE
          /\ UNCHANGED <<owner, state, outcome, exitMode, frozen, streak, wclock,
                         pipe, ff, childLock, killers, disk>>
      BY <2>21, Zenon DEF FfmpegExitSeen
    <3> QED
      BY <3>1, <3>2, <3>3
  <2>22. CASE FfmpegOverdue
    BY <2>22 DEF FfmpegOverdue, KillChild, WaitOver
  <2>23. CASE ReapKilled
    <3>1. outcome \in {"ok", "capture", "write", "fatal"}
      BY <2>23 DEF ReapKilled
    <3>2. /\ wresult' \in Answers \ {"ok", "exit"}
          /\ outcome \in {"capture", "fatal"} => wresult' = outcome
          /\ outcome = "write" /\ exitMode = "write_error" => wresult' \in {"write", "exit"}
          /\ wresult' = "write" => exitMode = "write_error"
          /\ wresult' = "overdue" => exitMode # "write_error"
      BY <2>23, <3>1, WorkerResultFacts, TRUE \in BOOLEAN, Zenon DEF ReapKilled
    <3>3. /\ wpc = "reaping" /\ wpc' = "store" /\ ff \in Exited
          /\ reaped' = TRUE /\ childLock' = "free"
          /\ UNCHANGED <<owner, state, outcome, exitMode, frozen, streak, wclock,
                         pipe, ff, killers, disk>>
      BY <2>23, Zenon DEF ReapKilled
    <3> QED
      BY <3>1, <3>2, <3>3
  <2>24. CASE WorkerReturns
    BY <2>24 DEF WorkerReturns
  <2>25. CASE Captured
    BY <2>25 DEF Captured
  <2>26. CASE CaptureFailed
    BY <2>26 DEF CaptureFailed
  <2>27. CASE DisplayGone
    BY <2>27 DEF DisplayGone
  <2>28. CASE FfmpegHangs
    BY <2>28 DEF FfmpegHangs, FfmpegStep
  <2>29. CASE FfmpegRecovers
    BY <2>29 DEF FfmpegRecovers, FfmpegStep
  <2>30. CASE FfmpegGivesUp
    BY <2>30 DEF FfmpegGivesUp, FfmpegStep
  <2>31. CASE FfmpegFails
    BY <2>31 DEF FfmpegFails, FfmpegStep
  <2>32. CASE FfmpegDies
    BY <2>32 DEF FfmpegDies, FfmpegStep
  <2>33. CASE FfmpegFinishes
    BY <2>33 DEF FfmpegFinishes, FfmpegStep
  <2>34. CASE FfmpegWritesOutput
    BY <2>34 DEF FfmpegWritesOutput, FfmpegStep
  <2>35. CASE Tick
    BY <2>35 DEF Tick, Due, Stopping, StopDeadlineOver, KillGraceOver, WaitOver
  <2>36. CASE UNCHANGED vars
    BY <2>36 DEF vars
  <2> QED
    BY <2>1, <2>2, <2>3, <2>4, <2>5, <2>6, <2>7, <2>8, <2>9, <2>10, <2>11,
       <2>12, <2>13, <2>14, <2>15, <2>16, <2>17, <2>18, <2>19, <2>20, <2>21,
       <2>22, <2>23, <2>24, <2>25, <2>26, <2>27, <2>28, <2>29, <2>30, <2>31,
       <2>32, <2>33, <2>34, <2>35, <2>36
       DEF Next, OwnerStep, WorkerStep, CaptureStep, ProcessStep
<1>3. QED
  BY <1>1, <1>2, PTL DEF Spec

(* Type correctness, for every value of the deadlines.                     *)
THEOREM TypeCorrect == Spec => []TypeOK
<1>1. IInv => TypeOK
  BY DEF IInv
<1> QED
  BY <1>1, InductiveInvariant, PTL

(* stop() answers Ok only for a complete recording.                        *)
THEOREM OkIsComplete == Spec => []OkMeansComplete
<1>1. IInv => OkMeansComplete
  BY DEF IInv, TypeOK, WorkerInv, BrokenPipeInv, AnswerInv, OkMeansComplete
<1> QED
  BY <1>1, InductiveInvariant, PTL

(* A recording that ends by itself has failed, and stop() reports what     *)
(* went wrong: a capture or setup error whatever ffmpeg did then, ffmpeg's *)
(* own reason for a failed write if it gave one, and never the exit of an  *)
(* ffmpeg that was killed.                                                 *)
THEOREM TrueCauseReported == Spec => []FailureReported
<1>1. IInv => FailureReported
  BY DEF IInv, TypeOK, WorkerInv, BrokenPipeInv, AnswerInv, FailureReported
<1> QED
  BY <1>1, InductiveInvariant, PTL

(* Both together: the answer of stop() can be believed.                    *)
THEOREM AnswerCanBeBelieved == Spec => []AnswerIsTrue
BY OkIsComplete, TrueCauseReported, PTL DEF AnswerIsTrue

(* The worker always reaps ffmpeg and closes the pipe.                     *)
THEOREM AlwaysReaped == Spec => []NoZombie
<1>1. IInv => NoZombie
  BY DEF IInv, TypeOK, WorkerInv, NoZombie
<1> QED
  BY <1>1, InductiveInvariant, PTL

(* STOPPED is final: the compare_exchange of pause and resume never        *)
(* leaves it, and both stores into the state store STOPPED.                *)
THEOREM StoppedForGood == Spec => StoppedIsFinal
<1>1. IInv /\ [Next]_vars => [state = "stopped" => state' = "stopped"]_vars
  <2> SUFFICES ASSUME IInv, [Next]_vars, state = "stopped"
               PROVE  state' = "stopped"
    OBVIOUS
  <2>1. CASE cpc = "new"
    BY <2>1 DEF IInv, BirthInv
  <2>2. CASE cpc # "new"
    BY <2>2 DEF Next, OwnerStep, WorkerStep, CaptureStep, ProcessStep, vars,
       Start, StartFails, Pause, Resume, Transition, RaiseStopFlag, StoreStopped,
       JoinWorker, JoinAfterKill, Return, KillHungFfmpeg, Detach, Tidy,
       StartSource, WriteFirst, NextSlot, RepeatPrevious, WriteCaptured,
       WriteFrame, FlushAndClose, FlushFails, DropBufferAndClose, DropProcess,
       FfmpegExitSeen, FfmpegOverdue, ReapKilled, WorkerReturns, Captured,
       CaptureFailed, DisplayGone, FfmpegHangs, FfmpegRecovers, FfmpegGivesUp,
       FfmpegFails, FfmpegDies, FfmpegFinishes, FfmpegWritesOutput, FfmpegStep, Tick
  <2> QED
    BY <2>1, <2>2
<1> QED
  BY <1>1, InductiveInvariant, PTL DEF Spec, StoppedIsFinal

(* What a step can do to the output file and the index: the encoder's      *)
(* progress, the two ends of the owner's program, or nothing.              *)
LEMMA DiskSteps ==
  ASSUME [Next]_vars
  PROVE  \/ Start \/ Tidy \/ FfmpegFinishes \/ FfmpegWritesOutput
         \/ UNCHANGED disk
  BY DEF Next, OwnerStep, WorkerStep, CaptureStep, ProcessStep, vars,
       StartFails, Pause, Resume, RaiseStopFlag, StoreStopped,
       JoinWorker, JoinAfterKill, Return, KillHungFfmpeg, Detach,
       StartSource, WriteFirst, NextSlot, RepeatPrevious, WriteCaptured,
       WriteFrame, FlushAndClose, FlushFails, DropBufferAndClose, DropProcess,
       FfmpegExitSeen, FfmpegOverdue, ReapKilled, WorkerReturns, Captured,
       CaptureFailed, DisplayGone, FfmpegHangs, FfmpegRecovers, FfmpegGivesUp,
       FfmpegFails, FfmpegDies, FfmpegStep, Tick

(* The output of a closed handle is never touched again.                   *)
THEOREM ClosedForGood == Spec => ClosedFileIsFinal
<1>1. IInv /\ [Next]_vars => [cpc = "closed" => UNCHANGED file]_vars
  <2> SUFFICES ASSUME IInv, [Next]_vars, cpc = "closed"
               PROVE  UNCHANGED file
    OBVIOUS
  <2>1. ff # "up"
    BY DEF IInv, KilledInv
  <2> QED
    BY <2>1, DiskSteps DEF Start, Tidy, FfmpegFinishes, FfmpegWritesOutput, FfmpegStep
<1> QED
  BY <1>1, InductiveInvariant, PTL DEF Spec, ClosedFileIsFinal

(* Only finished recordings are indexed; no placeholder survives an error. *)
THEOREM TidyOutput == Spec => []OutputTidy
<1>1. Init => OutputTidy
  BY DEF Init, OutputTidy
<1>2. IInv /\ IInv' /\ OutputTidy /\ [Next]_vars => OutputTidy'
  <2> SUFFICES ASSUME IInv, IInv', OutputTidy, [Next]_vars
               PROVE  OutputTidy'
    OBVIOUS
  <2>1. (indexed => result = "ok" /\ file = "complete")'
    BY DEF IInv, TypeOK, AnswerInv
  <2>2. (cpc = "closed" /\ via # "drop" => file # "empty")'
    <3>1. CASE cpc = "closed"
      <4>1. UNCHANGED <<cpc, via, file>>
        BY <3>1 DEF IInv, KilledInv, Next, OwnerStep, WorkerStep, CaptureStep,
           ProcessStep, vars,
           Start, StartFails, Pause, Resume, RaiseStopFlag, StoreStopped,
           JoinWorker, JoinAfterKill, Return, KillHungFfmpeg, Detach, Tidy,
           StopDeadlineOver, KillGraceOver,
           StartSource, WriteFirst, NextSlot, RepeatPrevious, WriteCaptured,
           WriteFrame, FlushAndClose, FlushFails, DropBufferAndClose, DropProcess,
           FfmpegExitSeen, FfmpegOverdue, ReapKilled, WorkerReturns, Captured,
           CaptureFailed, DisplayGone, FfmpegHangs, FfmpegRecovers, FfmpegGivesUp,
           FfmpegFails, FfmpegDies, FfmpegFinishes, FfmpegWritesOutput,
           FfmpegStep, Tick
      <4> QED
        BY <3>1, <4>1 DEF OutputTidy
    <3>2. CASE cpc # "closed" /\ cpc' = "closed"
      <4>1. Tidy \/ StartFails
        BY <3>2 DEF Next, OwnerStep, WorkerStep, CaptureStep,
           ProcessStep, vars,
           Start, Pause, Resume, RaiseStopFlag, StoreStopped,
           JoinWorker, JoinAfterKill, Return, KillHungFfmpeg, Detach,
           StartSource, WriteFirst, NextSlot, RepeatPrevious, WriteCaptured,
           WriteFrame, FlushAndClose, FlushFails, DropBufferAndClose, DropProcess,
           CloseStdin,
           FfmpegExitSeen, FfmpegOverdue, ReapKilled, WorkerReturns, Captured,
           CaptureFailed, DisplayGone, FfmpegHangs, FfmpegRecovers, FfmpegGivesUp,
           FfmpegFails, FfmpegDies, FfmpegFinishes, FfmpegWritesOutput,
           FfmpegStep, Tick
      <4>2. CASE StartFails
        BY <4>2 DEF StartFails, IInv, BirthInv
      <4>3. CASE Tidy
        BY <4>3 DEF Tidy, IInv, TypeOK, AnswerInv
      <4> QED
        BY <4>1, <4>2, <4>3
    <3> QED
      BY <3>1, <3>2
  <2> QED
    BY <2>1, <2>2 DEF OutputTidy
<1> QED
  BY <1>1, <1>2, InductiveInvariant, PTL DEF Spec

(* However a recording ends, it leaves neither a process nor a pipe, nor a *)
(* placeholder, nor a false entry in the index.                            *)
THEOREM CleanEnd == Spec => []NothingLeftBehind
  BY AlwaysReaped, TidyOutput, PTL DEF NothingLeftBehind

(* stop() is bounded by its two deadlines, provided that a killed ffmpeg   *)
(* is gone within a tick: then the child lock is never held past a         *)
(* deadline.                                                               *)
THEOREM BoundedStop == KillTakesEffect => (Spec => []StopBounded)
<1> SUFFICES ASSUME KillTakesEffect
             PROVE  Spec => []StopBounded
  OBVIOUS
<1>1. Init => ClockInv
  BY DEF Init, ClockInv
<1>2. IInv /\ ClockInv /\ [Next]_vars => ClockInv'
  <2> SUFFICES ASSUME IInv, ClockInv, [Next]_vars
               PROVE  ClockInv'
    OBVIOUS
  <2>1. CASE Tick
    <3>1. cpc \in {"waiting"} => cclock < StopDeadline
      BY <2>1 DEF Tick, Due, StopDeadlineOver, IInv, TypeOK, WorkerInv
    <3>2. cpc = "killed" => cclock < KillGrace
      BY <2>1 DEF Tick, Due, KillGraceOver, IInv, TypeOK
    <3>3. UNCHANGED cpc
      BY <2>1 DEF Tick
    <3>4. CASE cpc = "waiting"
      BY <2>1, <3>1, <3>3, <3>4
         DEF Tick, ClockInv, IInv, TypeOK, Stopping, StopDeadlineOver
    <3>5. CASE cpc = "killed"
      BY <2>1, <3>2, <3>3, <3>5
         DEF Tick, ClockInv, IInv, TypeOK, Stopping, StopDeadlineOver
    <3> QED
      BY <3>3, <3>4, <3>5 DEF ClockInv
  <2>2. CASE StoreStopped
    BY <2>2 DEF StoreStopped, ClockInv, IInv, BirthInv
  <2>3. CASE KillHungFfmpeg
    BY <2>3 DEF KillHungFfmpeg, StopDeadlineOver, ClockInv, IInv, TypeOK
  <2>4. CASE UNCHANGED <<cclock, elapsed>> /\ (cpc' \in {"waiting", "killed"} => cpc' = cpc)
    BY <2>4 DEF ClockInv
  <2> QED
    BY <2>1, <2>2, <2>3, <2>4 DEF Next, OwnerStep, WorkerStep, CaptureStep,
       ProcessStep, vars,
       Start, StartFails, Pause, Resume, RaiseStopFlag,
       JoinWorker, JoinAfterKill, Return, Detach, Tidy,
       StartSource, WriteFirst, NextSlot, RepeatPrevious, WriteCaptured,
       WriteFrame, FlushAndClose, FlushFails, DropBufferAndClose, DropProcess,
       FfmpegExitSeen, FfmpegOverdue, ReapKilled, WorkerReturns, Captured,
       CaptureFailed, DisplayGone, FfmpegHangs, FfmpegRecovers, FfmpegGivesUp,
       FfmpegFails, FfmpegDies, FfmpegFinishes, FfmpegWritesOutput, FfmpegStep
<1>3. IInv /\ ClockInv => StopBounded
  BY DEF IInv, TypeOK, ClockInv, StopBounded, Stopping
<1> QED
  BY <1>1, <1>2, <1>3, InductiveInvariant, PTL DEF Spec

(* RecordingEngine implements RecordingLifecycle: what the worker, ffmpeg  *)
(* and the deadlines do is either one step of the promise or invisible.    *)
THEOREM EngineImplementsLifecycle == Spec => ImplementsLifecycle
<1>1. Init => Lifecycle!Init
  BY DEF Init, Lifecycle!Init, Phase, Verdict
<1>2. IInv /\ IInv' /\ [Next]_vars => [Lifecycle!Next]_(Lifecycle!vars)
  <2> SUFFICES ASSUME IInv, IInv', [Next]_vars
               PROVE  Lifecycle!Next \/ UNCHANGED Lifecycle!vars
    OBVIOUS
  <2> USE DEF Lifecycle!Next, Lifecycle!vars, Phase, Verdict
  <2>1. CASE Start
    BY <2>1 DEF Start, Lifecycle!Begin, IInv, BirthInv
  <2>2. CASE StartFails
    BY <2>2 DEF StartFails, Lifecycle!BeginFails, IInv, BirthInv
  <2>3. CASE Pause
    BY <2>3 DEF Pause, Transition, Lifecycle!Pause
  <2>4. CASE Resume
    BY <2>4 DEF Resume, Transition, Lifecycle!Resume
  <2>5. CASE StoreStopped
    BY <2>5 DEF StoreStopped, Lifecycle!Halt, IInv, TypeOK
  <2>6. CASE JoinWorker
    BY <2>6 DEF JoinWorker, Return, Lifecycle!Return, IInv, TypeOK, BirthInv, AnswerInv
  <2>7. CASE JoinAfterKill \/ Detach
    BY <2>7 DEF JoinAfterKill, Detach, KillGraceOver, Return, Lifecycle!Return,
                IInv, TypeOK, BirthInv
  <2>8. CASE Tidy
    BY <2>8 DEF Tidy, Lifecycle!Discard, Lifecycle!Index, IInv, TypeOK, BirthInv, AnswerInv
  <2>9. CASE WorkerReturns
    BY <2>9 DEF WorkerReturns, Lifecycle!Halt, IInv, TypeOK, BirthInv
  <2>10. CASE FfmpegFinishes
    BY <2>10 DEF FfmpegFinishes, FfmpegStep, Lifecycle!Grow, IInv, TypeOK,
                 BirthInv, KilledInv
  <2>11. CASE FfmpegWritesOutput
    BY <2>11 DEF FfmpegWritesOutput, FfmpegStep, Lifecycle!Grow, IInv, TypeOK,
                 BirthInv, KilledInv
  <2>12. CASE UNCHANGED <<state, result, disk>> /\ (cpc' # cpc =>
                cpc' \in {"flagged", "killed"} /\ cpc \in {"live", "waiting"})
    BY <2>12
  <2> QED
    BY <2>1, <2>2, <2>3, <2>4, <2>5, <2>6, <2>7, <2>8, <2>9, <2>10, <2>11, <2>12
       DEF Next, OwnerStep, WorkerStep, CaptureStep, ProcessStep, vars,
       RaiseStopFlag, KillHungFfmpeg, StopDeadlineOver,
       StartSource, WriteFirst, NextSlot, RepeatPrevious, WriteCaptured,
       WriteFrame, FlushAndClose, FlushFails, DropBufferAndClose, DropProcess,
       FfmpegExitSeen, FfmpegOverdue, ReapKilled, Captured,
       CaptureFailed, DisplayGone, FfmpegHangs, FfmpegRecovers, FfmpegGivesUp,
       FfmpegFails, FfmpegDies, FfmpegStep, Tick
<1> QED
  BY <1>1, <1>2, InductiveInvariant, PTL DEF Spec, ImplementsLifecycle, Lifecycle!Spec
=============================================================================

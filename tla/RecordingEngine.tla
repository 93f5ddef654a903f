--------------------------- MODULE RecordingEngine ---------------------------
(***************************************************************************)
(* One screen recording: the handle its owner calls start / pause / resume *)
(* / stop on, the capture worker thread, the ffmpeg child process and the  *)
(* output file (crates/snapforge-encode/src/record/ffmpeg.rs and           *)
(* crates/snapforge-app/src/recording.rs).                                 *)
(*                                                                         *)
(* Time is counted in ticks.  Tick is the only action that advances it; a  *)
(* thread that polls (every 20 or 25 ms in the code) is assumed to run at  *)
(* least once per tick, so time does not pass a deadline that its poll     *)
(* loop could act on.  Anything that really waits for another party - a    *)
(* pipe ffmpeg does not read, a capture call, a lock, a process that has   *)
(* not exited - may take any number of ticks.                              *)
(***************************************************************************)
EXTENDS Integers

CONSTANTS
  StopDeadline,     \* STOP_DEADLINE: stop() waits this long, then kills ffmpeg
  KillGrace,        \* STOP_KILL_GRACE: and this long again, then detaches
  ExitDeadline,     \* FFMPEG_EXIT_DEADLINE: worker's wait for a normal exit
  WriteExitDeadline,\* FFMPEG_WRITE_ERROR_EXIT_DEADLINE
  CaptureLimit,     \* CAPTURE_FAILURE_LIMIT
  KillTakesEffect   \* a SIGKILLed ffmpeg is gone within a tick (no
                    \* uninterruptible sleep in the kernel)

ASSUME DeadlinesAssumption ==
  /\ StopDeadline \in Nat \ {0}
  /\ KillGrace \in Nat \ {0}
  /\ ExitDeadline \in Nat \ {0}
  /\ WriteExitDeadline \in Nat \ {0}
  /\ CaptureLimit \in Nat \ {0}
  /\ KillTakesEffect \in BOOLEAN

VARIABLES
  cpc,        \* the owner of the handle
  via,        \* how it ended the recording: "none", "stop" or "drop"
  stopFlag,   \* RecordingHandle::stop_flag
  state,      \* RecordingHandle::state
  cclock,     \* ticks since `started` / `killed_at` in shutdown
  elapsed,    \* history: ticks since stop() was called
  result,     \* what stop() returned
  wpc,        \* the worker
  outcome,    \* how the capture loop ended (LoopError)
  exitMode,   \* which of finish / write_error / drop waits for ffmpeg
  frozen,     \* FrameClock::paused_since is set
  streak,     \* ticks since CaptureFailures::first, -1 when it is None
  wclock,     \* ticks since `started` in wait_with_deadline
  wresult,    \* the worker's return value
  buffered,   \* the BufWriter holds bytes not yet in the pipe
  lost,       \* history: buffered bytes were dropped unwritten
  ff,         \* the ffmpeg process
  stdinOpen,  \* the write end of its stdin is open
  reaped,     \* its exit status has been collected
  childLock,  \* who blocks while holding Mutex<Child>
  killers,    \* history: who called kill() on it, "stop" or "worker"
  file,       \* the output path
  indexed     \* it has an entry in the history index

owner  == <<cpc, via, stopFlag, cclock, elapsed, result>>
worker == <<wpc, outcome, exitMode, frozen, streak, wclock, wresult>>
pipe   == <<buffered, lost, stdinOpen>>
child  == <<ff, reaped, childLock, killers>>
disk   == <<file, indexed>>
vars   == <<owner, state, worker, pipe, child, disk>>

OwnerPcs  == {"new", "live", "flagged", "waiting", "killed", "closing", "closed"}
WorkerPcs == {"none", "source", "first", "loop", "catchup", "capture", "write",
              "finalize", "exitwait", "reaping", "store", "done"}
(* What a worker can answer: Ok, the error that ended its loop, ffmpeg's   *)
(* own reason, or that ffmpeg did not finish in time.                      *)
Answers   == {"ok", "capture", "write", "fatal", "exit", "overdue"}
Results   == Answers \cup {"none", "start", "forced", "dropped"}

(* The exit status of ffmpeg: exited with success, or with anything else.  *)
Exited  == {"ok", "bad"}
(* Nobody reads the pipe any more: a write fails with EPIPE.               *)
Deaf    == Exited \cup {"closing"}

Init ==
  /\ cpc = "new" /\ via = "none" /\ stopFlag = FALSE /\ state = "running"
  /\ cclock = 0 /\ elapsed = 0 /\ result = "none"
  /\ wpc = "none" /\ outcome = "none" /\ exitMode = "none" /\ frozen = FALSE
  /\ streak = -1 /\ wclock = 0 /\ wresult = "none"
  /\ buffered = FALSE /\ lost = FALSE /\ stdinOpen = FALSE
  /\ ff = "none" /\ reaped = FALSE /\ childLock = "free" /\ killers = {}
  /\ file = "none" /\ indexed = FALSE

-----------------------------------------------------------------------------
(* The owner of the handle.  The FFI serialises pause, resume and stop on  *)
(* one handle with a mutex, so the owner is one sequential process.        *)

(* app::start_recording: claim a placeholder, launch ffmpeg, spawn the     *)
(* worker.                                                                 *)
Start ==
  /\ cpc = "new"
  /\ cpc' = "live"
  /\ file' = "empty"
  /\ ff' = "up" /\ stdinOpen' = TRUE
  /\ wpc' = "source"
  /\ UNCHANGED <<via, stopFlag, cclock, elapsed, result, state, outcome,
                 exitMode, frozen, streak, wclock, wresult, buffered, lost,
                 reaped, childLock, killers, indexed>>

(* Any step of start_recording fails: a spawned child is killed and        *)
(* reaped, the empty placeholder removed, and there is no handle.          *)
StartFails ==
  /\ cpc = "new"
  /\ cpc' = "closed"
  /\ result' = "start"
  /\ state' = "stopped"
  /\ UNCHANGED <<via, stopFlag, cclock, elapsed, worker, pipe, child, disk>>

(* Mutant: a plain store instead of the compare_exchange.                  *)
TransitionBlindly(from, to) == to

(* compare_exchange: `to` if the state is `from`, unchanged otherwise.     *)
Transition(from, to) == IF state = from THEN to ELSE state

Pause ==
  /\ cpc = "live"
  /\ state' = Transition("running", "paused")
  /\ UNCHANGED <<owner, worker, pipe, child, disk>>

Resume ==
  /\ cpc = "live"
  /\ state' = Transition("paused", "running")
  /\ UNCHANGED <<owner, worker, pipe, child, disk>>

(* stop(self), or Drop without it: both run shutdown.                      *)
RaiseStopFlag ==
  /\ cpc = "live"
  /\ cpc' = "flagged"
  /\ via' \in {"stop", "drop"}
  /\ stopFlag' = TRUE
  /\ UNCHANGED <<cclock, elapsed, result, state, worker, pipe, child, disk>>

StoreStopped ==
  /\ cpc = "flagged"
  /\ cpc' = "waiting"
  /\ state' = "stopped"
  /\ cclock' = 0
  /\ UNCHANGED <<via, stopFlag, elapsed, result, worker, pipe, child, disk>>

(* shutdown returns r; Drop ignores it.                                    *)
Return(r) ==
  /\ cpc' = "closing"
  /\ result' = IF via = "drop" THEN "dropped" ELSE r
  /\ UNCHANGED <<via, stopFlag, cclock, elapsed, state, worker, pipe, child, disk>>

(* Mutant: the worker is not waited for.                                   *)
JoinWorkerEarly ==
  /\ cpc = "waiting"
  /\ Return(wresult)

JoinWorker ==
  /\ cpc = "waiting"
  /\ wpc = "done"
  /\ Return(wresult)

(* Mutant: the worker's answer is passed on although ffmpeg was killed.    *)
JoinAfterKillBlaming ==
  /\ cpc = "killed"
  /\ wpc = "done"
  /\ Return(wresult)

JoinAfterKill ==
  /\ cpc = "killed"
  /\ wpc = "done"
  /\ Return("forced")

(* Child::kill: SIGKILL, without effect on a process that has exited.      *)
KillChild == ff' = IF ff \in Exited THEN ff ELSE "dying"

(* Mutant: the deadline is noticed one tick late.                          *)
StopDeadlineOverLate == cpc = "waiting" /\ cclock > StopDeadline

StopDeadlineOver == cpc = "waiting" /\ cclock >= StopDeadline
KillGraceOver    == cpc = "killed" /\ cclock >= KillGrace

(* Mutant: the deadline only changes what stop() will answer.              *)
KillNothing ==
  /\ StopDeadlineOver
  /\ wpc # "done"
  /\ childLock = "free"
  /\ cpc' = "killed"
  /\ cclock' = 0
  /\ UNCHANGED <<via, stopFlag, elapsed, result, state, worker, pipe, child, disk>>

(* The deadline passed: lock the child and kill it.                        *)
KillHungFfmpeg ==
  /\ StopDeadlineOver
  /\ wpc # "done"
  /\ childLock = "free"
  /\ KillChild
  /\ killers' = killers \cup {"stop"}
  /\ cpc' = "killed"
  /\ cclock' = 0
  /\ UNCHANGED <<via, stopFlag, elapsed, result, state, worker, pipe, reaped,
                 childLock, disk>>

(* The worker is stuck where killing ffmpeg does not help: detach it.      *)
Detach ==
  /\ KillGraceOver
  /\ wpc # "done"
  /\ Return("forced")

(* Mutant: the placeholder is not removed after an error.                  *)
TidyKeepsPlaceholder ==
  /\ cpc = "closing"
  /\ cpc' = "closed"
  /\ indexed' \in IF result = "ok" /\ file = "complete" THEN BOOLEAN ELSE {FALSE}
  /\ UNCHANGED <<via, stopFlag, cclock, elapsed, result, state, worker, pipe,
                 child, file>>

(* app::stop_recording after stop() returned: an error removes an empty    *)
(* output, a success indexes a finished file (wanted or not is the         *)
(* request's add_to_history_on_stop).  Drop does neither.                  *)
Tidy ==
  /\ cpc = "closing"
  /\ cpc' = "closed"
  /\ file' = IF result \notin {"ok", "dropped"} /\ file = "empty" THEN "none" ELSE file
  /\ indexed' \in IF result = "ok" /\ file = "complete" THEN BOOLEAN ELSE {FALSE}
  /\ UNCHANGED <<via, stopFlag, cclock, elapsed, result, state, worker, pipe, child>>

-----------------------------------------------------------------------------
(* The worker thread.                                                      *)

(* RecordingSource::start.                                                 *)
StartSource ==
  /\ wpc = "source"
  /\ \/ wpc' = "first" /\ UNCHANGED outcome
     \/ wpc' = "finalize" /\ outcome' = "fatal"
  /\ UNCHANGED <<owner, state, exitMode, frozen, streak, wclock, wresult, pipe,
                 child, disk>>

(* Mutant: a failed write is skipped.                                      *)
WriteFrameIgnoringErrors(from, to) ==
  /\ wpc = from
  /\ \/ ~buffered /\ buffered' = TRUE
     \/ ff = "up" /\ buffered' \in BOOLEAN
     \/ ff \in Deaf /\ UNCHANGED buffered
  /\ wpc' = to
  /\ UNCHANGED <<owner, state, outcome, exitMode, frozen, streak, wclock, wresult,
                 lost, stdinOpen, child, disk>>

(* One write_all from pc `from`: kept in the buffer, passed through to a   *)
(* reading ffmpeg, or failed with EPIPE.  With a hung ffmpeg it blocks.    *)
WriteFrame(from, to) ==
  /\ wpc = from
  /\ \/ ~buffered /\ buffered' = TRUE /\ wpc' = to /\ UNCHANGED outcome
     \/ ff = "up" /\ buffered' \in BOOLEAN /\ wpc' = to /\ UNCHANGED outcome
     \/ ff \in Deaf /\ wpc' = "finalize" /\ outcome' = "write" /\ UNCHANGED buffered
  /\ UNCHANGED <<owner, state, exitMode, frozen, streak, wclock, wresult, lost,
                 stdinOpen, child, disk>>

(* The frame the file starts with, captured or black.                      *)
WriteFirst == WriteFrame("first", "loop")

(* Top of the loop: leave when asked to stop, freeze the clock while       *)
(* paused, otherwise take the next slot; a resume forgets earlier capture  *)
(* failures.  A stalled loop first repeats the previous frame.             *)
NextSlot ==
  /\ wpc = "loop"
  /\ IF stopFlag
     THEN wpc' = "finalize" /\ outcome' = "ok" /\ UNCHANGED <<frozen, streak>>
     ELSE IF state = "paused"
     THEN frozen' = TRUE /\ UNCHANGED <<wpc, outcome, streak>>
     ELSE /\ wpc' \in {"catchup", "capture"}
          /\ frozen' = FALSE
          /\ streak' = IF frozen THEN -1 ELSE streak
          /\ UNCHANGED outcome
  /\ UNCHANGED <<owner, state, exitMode, wclock, wresult, pipe, child, disk>>

RepeatPrevious == WriteFrame("catchup", "capture")

Captured ==
  /\ wpc = "capture"
  /\ wpc' = "write"
  /\ streak' = -1
  /\ UNCHANGED <<owner, state, outcome, exitMode, frozen, wclock, wresult, pipe,
                 child, disk>>

(* record_failure: terminal once the run of failures is old enough.        *)
CaptureFailed ==
  /\ wpc = "capture"
  /\ IF streak >= CaptureLimit
     THEN wpc' = "finalize" /\ outcome' = "capture" /\ UNCHANGED streak
     ELSE /\ wpc' = "write"
          /\ streak' = IF streak = -1 THEN 0 ELSE streak
          /\ UNCHANGED outcome
  /\ UNCHANGED <<owner, state, exitMode, frozen, wclock, wresult, pipe, child, disk>>

(* record_failure with NoDisplay: terminal at once.                        *)
DisplayGone ==
  /\ wpc = "capture"
  /\ wpc' = "finalize"
  /\ outcome' = "capture"
  /\ UNCHANGED <<owner, state, exitMode, frozen, streak, wclock, wresult, pipe,
                 child, disk>>

WriteCaptured == WriteFrame("write", "loop")

(* finalize: close stdin, then wait for ffmpeg with the deadline that fits *)
(* the way the loop ended.                                                 *)
CloseStdin(mode) ==
  /\ stdinOpen' = FALSE
  /\ wpc' = "exitwait"
  /\ exitMode' = mode
  /\ wclock' = 0

FlushAndClose ==
  /\ wpc = "finalize"
  /\ outcome \in {"ok", "capture"}
  /\ ~buffered \/ ff = "up"
  /\ CloseStdin("finish")
  /\ buffered' = FALSE
  /\ UNCHANGED <<owner, state, outcome, frozen, streak, wresult, lost, child, disk>>

FlushFails ==
  /\ wpc = "finalize"
  /\ outcome \in {"ok", "capture"}
  /\ buffered
  /\ ff \in Deaf
  /\ CloseStdin("write_error")
  /\ lost' = TRUE
  /\ buffered' = FALSE
  /\ UNCHANGED <<owner, state, outcome, frozen, streak, wresult, child, disk>>

DropBufferAndClose ==
  /\ wpc = "finalize"
  /\ outcome = "write"
  /\ CloseStdin("write_error")
  /\ lost' = TRUE
  /\ buffered' = FALSE
  /\ UNCHANGED <<owner, state, outcome, frozen, streak, wresult, child, disk>>

(* FfmpegProcess::drop after a failed setup: kill and wait under the lock. *)
DropProcess ==
  /\ wpc = "finalize"
  /\ outcome = "fatal"
  /\ childLock = "free"
  /\ stdinOpen' = FALSE
  /\ exitMode' = "drop"
  /\ KillChild
  /\ killers' = killers \cup {"worker"}
  /\ childLock' = "worker"
  /\ wpc' = "reaping"
  /\ UNCHANGED <<owner, state, outcome, frozen, streak, wclock, wresult, buffered,
                 lost, reaped, disk>>

WaitLimit == IF exitMode = "finish" THEN ExitDeadline ELSE WriteExitDeadline
WaitOver  == wpc = "exitwait" /\ wclock >= WaitLimit

(* Mutant: ffmpeg's exit status is not looked at.                          *)
WorkerResultIgnoringStatus(timedOut) ==
  IF outcome \in {"capture", "fatal"} THEN outcome
  ELSE IF exitMode = "write_error" THEN "write"
  ELSE IF timedOut THEN "overdue"
  ELSE "ok"

(* Mutant: how ffmpeg ended hides the capture error that ended the loop.   *)
WorkerResultStatusFirst(timedOut) ==
  IF ~timedOut /\ ff = "bad" THEN "exit"
  ELSE IF outcome \in {"capture", "fatal"} THEN outcome
  ELSE IF exitMode = "write_error" THEN "write"
  ELSE IF timedOut THEN "overdue"
  ELSE "ok"

(* Mutant: the status of an ffmpeg the worker killed itself is passed on   *)
(* as ffmpeg's reason.                                                     *)
WorkerResultOfKilled(timedOut) ==
  IF outcome \in {"capture", "fatal"} THEN outcome
  ELSE IF ff = "bad" THEN "exit"
  ELSE "ok"

(* The worker's return value once ffmpeg is reaped.  A capture or setup    *)
(* error stands whatever ffmpeg did.  A failed write or flush (write_error *)
(* in the code) is answered with ffmpeg's own reason if it exited by       *)
(* itself, "so the user sees why", and with the write error otherwise.     *)
WorkerResult(timedOut) ==
  IF outcome \in {"capture", "fatal"} THEN outcome
  ELSE IF ~timedOut /\ ff = "bad" THEN "exit"
  ELSE IF exitMode = "write_error" THEN "write"
  ELSE IF timedOut THEN "overdue"
  ELSE "ok"

(* try_wait found the exit status; the stderr drain ends with the process. *)
FfmpegExitSeen ==
  /\ wpc = "exitwait"
  /\ childLock = "free"
  /\ ff \in Exited
  /\ reaped' = TRUE
  /\ wresult' = WorkerResult(FALSE)
  /\ wpc' = "store"
  /\ UNCHANGED <<owner, state, outcome, exitMode, frozen, streak, wclock, pipe,
                 ff, childLock, killers, disk>>

(* Mutant: the overdue ffmpeg is killed but not waited for.                *)
FfmpegOverdueUnreaped ==
  /\ WaitOver
  /\ childLock = "free"
  /\ ff \notin Exited
  /\ KillChild
  /\ killers' = killers \cup {"worker"}
  /\ wresult' = WorkerResult(TRUE)
  /\ wpc' = "store"
  /\ UNCHANGED <<owner, state, outcome, exitMode, frozen, streak, wclock, pipe,
                 reaped, childLock, disk>>

(* The worker's own deadline: kill, then wait while still holding the lock.*)
FfmpegOverdue ==
  /\ WaitOver
  /\ childLock = "free"
  /\ ff \notin Exited
  /\ KillChild
  /\ killers' = killers \cup {"worker"}
  /\ childLock' = "worker"
  /\ wpc' = "reaping"
  /\ UNCHANGED <<owner, state, outcome, exitMode, frozen, streak, wclock, wresult,
                 pipe, reaped, disk>>

ReapKilled ==
  /\ wpc = "reaping"
  /\ ff \in Exited
  /\ reaped' = TRUE
  /\ childLock' = "free"
  /\ wresult' = WorkerResult(TRUE)
  /\ wpc' = "store"
  /\ UNCHANGED <<owner, state, outcome, exitMode, frozen, streak, wclock, pipe,
                 ff, killers, disk>>

(* The last thing the worker does: only now is the state STOPPED.          *)
WorkerReturns ==
  /\ wpc = "store"
  /\ state' = "stopped"
  /\ wpc' = "done"
  /\ UNCHANGED <<owner, outcome, exitMode, frozen, streak, wclock, wresult, pipe,
                 child, disk>>

-----------------------------------------------------------------------------
(* ffmpeg, as the code sees it from outside.  It reports success only      *)
(* after the end of its input, since spawn_ffmpeg passes no limit.         *)

FfmpegStep(from, to) ==
  /\ ff \in from
  /\ ff' = to
  /\ UNCHANGED <<owner, state, worker, pipe, reaped, childLock, killers>>

FfmpegHangs    == FfmpegStep({"up"}, "hung") /\ UNCHANGED disk
FfmpegRecovers == FfmpegStep({"hung"}, "up") /\ UNCHANGED disk
(* Disk full or an encoder error: it stops reading, and exits later.       *)
FfmpegGivesUp  == FfmpegStep({"up", "hung"}, "closing") /\ UNCHANGED disk
FfmpegFails    == FfmpegStep({"up", "hung", "closing"}, "bad") /\ UNCHANGED disk
FfmpegDies     == FfmpegStep({"dying"}, "bad") /\ UNCHANGED disk

FfmpegFinishes ==
  /\ ~stdinOpen
  /\ FfmpegStep({"up"}, "ok")
  /\ file' = "complete"
  /\ UNCHANGED indexed

FfmpegWritesOutput ==
  /\ file = "empty"
  /\ file' = "partial"
  /\ FfmpegStep({"up"}, "up")
  /\ UNCHANGED indexed

-----------------------------------------------------------------------------
(* A poll loop, a wait whose event has come or straight-line code runs     *)
(* before the next tick.                                                   *)
Due ==
  \/ cpc = "flagged"
  \/ cpc \in {"waiting", "killed"} /\ wpc = "done"
  \/ StopDeadlineOver /\ childLock = "free"
  \/ KillGraceOver
  \/ WaitOver
  \/ wpc = "reaping" /\ ff \in Exited
  \/ KillTakesEffect /\ ff = "dying"

StopLimit == StopDeadline + KillGrace

Stopping == cpc \in {"waiting", "killed"}

Tick ==
  /\ ~Due
  /\ cclock' = IF Stopping /\ ~StopDeadlineOver THEN cclock + 1 ELSE cclock
  /\ elapsed' = IF Stopping /\ elapsed <= StopLimit THEN elapsed + 1 ELSE elapsed
  /\ wclock' = IF wpc = "exitwait" THEN wclock + 1 ELSE wclock
  /\ streak' = IF streak \in 0..(CaptureLimit - 1) THEN streak + 1 ELSE streak
  /\ UNCHANGED <<cpc, via, stopFlag, result, state, wpc, outcome, exitMode,
                 frozen, wresult, pipe, child, disk>>

-----------------------------------------------------------------------------
OwnerStep ==
  \/ Start
  \/ StartFails
  \/ Pause
  \/ Resume
  \/ RaiseStopFlag
  \/ StoreStopped
  \/ JoinWorker
  \/ JoinAfterKill
  \/ KillHungFfmpeg
  \/ Detach
  \/ Tidy

CaptureStep == Captured \/ CaptureFailed \/ DisplayGone

(* Everything the worker does except the capture call.                     *)
WorkerStep ==
  \/ StartSource
  \/ WriteFirst
  \/ NextSlot
  \/ RepeatPrevious
  \/ WriteCaptured
  \/ FlushAndClose
  \/ FlushFails
  \/ DropBufferAndClose
  \/ DropProcess
  \/ FfmpegExitSeen
  \/ FfmpegOverdue
  \/ ReapKilled
  \/ WorkerReturns

ProcessStep ==
  \/ FfmpegHangs
  \/ FfmpegRecovers
  \/ FfmpegGivesUp
  \/ FfmpegFails
  \/ FfmpegDies
  \/ FfmpegFinishes
  \/ FfmpegWritesOutput

Next == OwnerStep \/ WorkerStep \/ CaptureStep \/ ProcessStep \/ Tick

Spec == Init /\ [][Next]_vars

(* The owner's thread runs once it has called stop, the clock advances, a  *)
(* killed process goes away, and a thread waiting for a process to exit is *)
(* scheduled.  The worker may be stuck anywhere else.                      *)
OwnerFairness ==
  /\ WF_vars(StoreStopped \/ JoinWorker \/ JoinAfterKill \/ KillHungFfmpeg
             \/ Detach \/ Tidy)
  /\ WF_vars(Tick)
  /\ WF_vars(FfmpegDies)
  /\ WF_vars(FfmpegExitSeen \/ FfmpegOverdue \/ ReapKilled)

StopSpec == Spec /\ OwnerFairness

(* Also the worker is scheduled and its capture calls return.              *)
WorkerRuns == WF_vars(WorkerStep) /\ WF_vars(CaptureStep)
-----------------------------------------------------------------------------
(* Properties.                                                             *)

IsFlag(b) == b = TRUE \/ b = FALSE

(* Types; an answer of stop() and a worker's value exist exactly when the  *)
(* thread that gives them has got that far.                                *)
TypeOK ==
  /\ cpc \in OwnerPcs
  /\ via \in {"none", "stop", "drop"}
  /\ IsFlag(stopFlag)
  /\ state \in {"running", "paused", "stopped"}
  /\ cclock \in 0..(StopDeadline + KillGrace)
  /\ elapsed \in 0..(StopLimit + 1)
  /\ result \in Results
  /\ wpc \in WorkerPcs
  /\ outcome \in {"none", "ok", "capture", "write", "fatal"}
  /\ exitMode \in {"none", "finish", "write_error", "drop"}
  /\ IsFlag(frozen)
  /\ streak \in -1..CaptureLimit
  /\ wclock \in 0..(ExitDeadline + WriteExitDeadline)
  /\ wresult \in Results
  /\ IsFlag(buffered)
  /\ IsFlag(lost)
  /\ IsFlag(stdinOpen)
  /\ ff \in {"none", "up", "hung", "closing", "dying", "ok", "bad"}
  /\ IsFlag(reaped)
  /\ childLock \in {"free", "worker"}
  /\ killers \subseteq {"stop", "worker"}
  /\ file \in {"none", "empty", "partial", "complete"}
  /\ IsFlag(indexed)
  /\ cpc \in {"closing", "closed"} <=> result # "none"
  /\ wpc \in {"store", "done"} <=> wresult # "none"

(* stop() answers Ok only for a recording that is all there: ffmpeg exited *)
(* with success after the end of its input, its status was collected, no   *)
(* buffered frame was dropped on the way and the container is finished.    *)
(* Every error path of finalize, both deadlines and the forced stop feed   *)
(* into this one answer.                                                   *)
OkMeansComplete ==
  result = "ok" => ff = "ok" /\ reaped /\ ~lost /\ file = "complete"

(* A recording that ended without being asked to has failed, even when     *)
(* ffmpeg then finalized the file gracefully, and the failure is kept for  *)
(* stop().  What stop() reports is what went wrong.  A capture or setup    *)
(* error is never replaced by one of the cleanup.  ffmpeg's exit is the    *)
(* reason given only if nobody killed it; it replaces a write error        *)
(* whenever it can, so a bare write error means that ffmpeg gave no reason *)
(* before the worker had to kill it.  "Did not finish" is said only of a   *)
(* recording whose frames had all been taken.                              *)
FailureReported ==
  /\ wpc = "done" /\ ~stopFlag => wresult \in {"capture", "write", "fatal", "exit"}
  /\ result \in Answers =>
       /\ outcome \in {"capture", "fatal"} => result = outcome
       /\ outcome = "write" => result \in {"write", "exit"}
       /\ result = "write" => lost /\ killers = {"worker"}
       /\ result = "exit" => ff = "bad" /\ killers = {}
       /\ result = "overdue" => ~lost /\ killers = {"worker"}

(* The answer of stop() can be believed, whether it is Ok or an error.     *)
AnswerIsTrue == OkMeansComplete /\ FailureReported

(* "Every exit path goes through here, so ffmpeg is always reaped": the    *)
(* worker never returns with a child process or an open pipe left behind.  *)
NoZombie ==
  wpc \in {"store", "done"} => reaped /\ ~stdinOpen /\ childLock = "free"

(* "Bounded": stop() returns within STOP_DEADLINE + STOP_KILL_GRACE,       *)
(* whatever the worker, the capture API and ffmpeg do.                     *)
StopBounded == Stopping => elapsed <= StopLimit

(* Nothing that is no finished recording enters the history, and a failed  *)
(* recording does not leave its empty placeholder behind.                  *)
OutputTidy ==
  /\ indexed => result = "ok" /\ file = "complete"
  /\ cpc = "closed" /\ via # "drop" => file # "empty"

(* Neither a process nor a pipe, nor a placeholder, nor a false entry in   *)
(* the index is left behind, whichever way a recording ended.              *)
NothingLeftBehind == NoZombie /\ OutputTidy

(* STOPPED is final: no pause, resume or late store brings a stopped       *)
(* recording back.                                                         *)
StoppedIsFinal == [][state = "stopped" => state' = "stopped"]_vars

(* Once the handle is closed the output file is never touched again - also *)
(* when the worker had to be detached.                                     *)
ClosedFileIsFinal == [][cpc = "closed" => UNCHANGED file]_vars

(* If capture calls return, nothing is leaked for good: after a stop, even *)
(* one that gave up and detached, the worker ends and ffmpeg is reaped,    *)
(* because the kill unblocks a worker stuck in write_all.  And ffmpeg      *)
(* dying mid-recording is noticed without anyone asking, unless the        *)
(* recording is paused: is_alive turns false.                              *)
WorkerReacts ==
  WorkerRuns =>
    /\ stopFlag ~> wpc = "done" /\ reaped
    /\ ff \in Exited ~> state \in {"stopped", "paused"}

(* The refinement mapping onto what the owner of a handle is promised.     *)
Phase ==
  IF cpc = "new" THEN "idle"
  ELSE IF state = "running" THEN "recording"
  ELSE IF state = "paused" THEN "paused"
  ELSE "over"

Verdict ==
  IF cpc \notin {"closing", "closed"} THEN "none"
  ELSE IF result = "ok" THEN "ok"
  ELSE IF result = "dropped" THEN "unheard"
  ELSE "error"

Lifecycle == INSTANCE RecordingLifecycle WITH phase <- Phase, verdict <- Verdict

(* RecordingEngine implements RecordingLifecycle.                          *)
ImplementsLifecycle == Lifecycle!Spec
=============================================================================

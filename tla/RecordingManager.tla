-------------------------- MODULE RecordingManager --------------------------
(***************************************************************************)
(* The Qt side of recording: RecordingManager (qt/src/capture), the        *)
(* controller and tray that follow its signals, its stop worker threads    *)
(* and its destructor.  Every recording it starts is a session whose       *)
(* engine keeps the promise of RecordingLifecycle.                         *)
(*                                                                         *)
(* The GUI thread runs one handler at a time, so a handler is one action.  *)
(* Signals are direct calls: what the controller does to the tray is part  *)
(* of the handler that emits.  A tick is 5 seconds; a runnable thread and  *)
(* a posted event do not wait for a tick.                                  *)
(***************************************************************************)
EXTENDS Integers, Sequences, FiniteSets

CONSTANTS
  MaxSessions,   \* bound: recordings attempted in one run of the program
  StopTimeout,   \* m_stopTimeoutMs
  QuitDeadline   \* the destructor's 30 s

ASSUME LimitsAssumption ==
  /\ MaxSessions \in Nat \ {0}
  /\ StopTimeout \in Nat \ {0}
  /\ QuitDeadline \in Nat \ {0}

Sessions == 1..MaxSessions
None == 0

VARIABLES
  app,        \* "running", then the destructor: "quitting", "finalizing",
              \* and its end: "gone" (returned) or "aborted" (_Exit)
  started,    \* sessions attempted so far
  handle,     \* m_handle: the session it belongs to
  paused,     \* m_paused
  autoPaused, \* m_autoPausedBySleep
  stopping,   \* m_stopping
  stopGen,    \* m_stopGen
  watchdog,   \* ticks since m_stopWatchdog was started, -1 when it is off
  quitClock,  \* ticks of the destructor's current wait
  gen,        \* per session: the generation its stop job carries
  job,        \* per session: its stop worker and StopJob
  posted,     \* sessions whose finishStop event is queued for the GUI thread
  phase, verdict, file, indexed,  \* per session: the engine
  tray,       \* TrayIcon: m_inRecordingState, m_finalizing, m_paused
  outcome,    \* history, per session: the final signals emitted for it
  userPaused  \* history: the pause in force was asked for by the user

control == <<app, started, handle, stopping, stopGen, watchdog, quitClock>>
pausing == <<paused, autoPaused, userPaused>>
jobs    == <<gen, job, posted>>
engine  == <<phase, verdict, file, indexed>>
shown   == <<tray, outcome>>
vars    == <<control, pausing, jobs, engine, shown>>

(* A stop job: thread created, inside recordStop, tidying after stop()     *)
(* returned there, returned and handle freed, result posted, promise set,  *)
(* thread joined.                                                          *)
JobStates == {"none", "created", "stop", "tidy", "freed", "posted", "done", "joined"}

IdleTray == [shown |-> FALSE, finalizing |-> FALSE, paused |-> FALSE]

Init ==
  /\ app = "running" /\ started = 0 /\ handle = None
  /\ paused = FALSE /\ autoPaused = FALSE /\ userPaused = FALSE
  /\ stopping = FALSE /\ stopGen = 0 /\ watchdog = -1 /\ quitClock = 0
  /\ gen = [s \in Sessions |-> 0] /\ job = [s \in Sessions |-> "none"]
  /\ posted = {}
  /\ phase = [s \in Sessions |-> "idle"] /\ verdict = [s \in Sessions |-> "none"]
  /\ file = [s \in Sessions |-> "none"] /\ indexed = [s \in Sessions |-> FALSE]
  /\ tray = IdleTray /\ outcome = [s \in Sessions |-> <<>>]

-----------------------------------------------------------------------------
(* Signals and what the controller does with them.                         *)

enterRecordingState == tray' = [IdleTray EXCEPT !.shown = TRUE]
leaveRecordingState == tray' = IdleTray

enterFinalizingState ==
  tray' = IF tray.shown THEN [tray EXCEPT !.finalizing = TRUE] ELSE tray

setPaused(p) ==
  tray' = IF tray.shown /\ ~tray.finalizing THEN [tray EXCEPT !.paused = p] ELSE tray

(* recordingStopped or recordingError for session s.                       *)
Emit(s, signal) ==
  /\ outcome' = [outcome EXCEPT ![s] = Append(@, signal)]
  /\ leaveRecordingState

isRecording == handle # None

-----------------------------------------------------------------------------
(* The GUI thread.                                                         *)
Gui == app = "running"

(* Mutant: a start during finalization is let through.                     *)
MayStartUngated == Gui /\ ~isRecording /\ started < MaxSessions

(* startRecording's gate; a rejected start only warns.                     *)
MayStart == Gui /\ ~isRecording /\ ~stopping /\ started < MaxSessions

StartRecording ==
  LET s == started + 1 IN
  /\ MayStart
  /\ started' = s
  /\ handle' = s
  /\ phase' = [phase EXCEPT ![s] = "recording"]
  /\ file' = [file EXCEPT ![s] = "empty"]
  /\ paused' = FALSE /\ autoPaused' = FALSE /\ userPaused' = FALSE
  /\ enterRecordingState
  /\ UNCHANGED <<app, stopping, stopGen, watchdog, quitClock, jobs, verdict,
                 indexed, outcome>>

StartFails ==
  LET s == started + 1 IN
  /\ MayStart
  /\ started' = s
  /\ phase' = [phase EXCEPT ![s] = "over"]
  /\ verdict' = [verdict EXCEPT ![s] = "error"]
  /\ Emit(s, "error")
  /\ UNCHANGED <<app, handle, stopping, stopGen, watchdog, quitClock, pausing,
                 jobs, file, indexed>>

Alive(s) == phase[s] \in {"recording", "paused"}

(* Mutant: a failed pause is taken for the end of the recording.           *)
pauseOrGiveUp ==
  IF Alive(handle)
  THEN /\ phase' = [phase EXCEPT ![handle] = "paused"]
       /\ paused' = TRUE
       /\ setPaused(TRUE)
  ELSE /\ leaveRecordingState
       /\ UNCHANGED <<phase, paused>>

(* pauseRecording past its early return.  A failed call only warns.        *)
pauseRecording ==
  IF Alive(handle)
  THEN /\ phase' = [phase EXCEPT ![handle] = "paused"]
       /\ paused' = TRUE
       /\ setPaused(TRUE)
  ELSE UNCHANGED <<phase, paused, tray>>

resumeRecording ==
  IF Alive(handle)
  THEN /\ phase' = [phase EXCEPT ![handle] = "recording"]
       /\ paused' = FALSE /\ userPaused' = FALSE
       /\ setPaused(FALSE)
  ELSE UNCHANGED <<phase, paused, userPaused, tray>>

UserPauses ==
  /\ Gui /\ isRecording /\ ~paused
  /\ pauseRecording
  /\ userPaused' = paused'
  /\ UNCHANGED <<control, autoPaused, jobs, verdict, file, indexed, outcome>>

(* A successful resume disarms the auto-resume.                            *)
UserResumes ==
  /\ Gui /\ isRecording /\ paused
  /\ resumeRecording
  /\ autoPaused' = (autoPaused /\ paused')
  /\ UNCHANGED <<control, jobs, verdict, file, indexed, outcome>>

(* Mutant: sleep arms the auto-resume for whatever pause is in force.      *)
SystemSleepsArming ==
  /\ Gui /\ isRecording
  /\ IF paused THEN UNCHANGED <<phase, paused, tray>> ELSE pauseRecording
  /\ autoPaused' = paused'
  /\ UNCHANGED <<control, userPaused, jobs, verdict, file, indexed, outcome>>

SystemSleeps ==
  /\ Gui /\ isRecording /\ ~paused
  /\ pauseRecording
  /\ autoPaused' = paused'
  /\ UNCHANGED <<control, userPaused, jobs, verdict, file, indexed, outcome>>

SystemWakes ==
  /\ Gui /\ autoPaused
  /\ autoPaused' = FALSE
  /\ IF isRecording /\ paused THEN resumeRecording
     ELSE UNCHANGED <<phase, paused, userPaused, tray>>
  /\ UNCHANGED <<control, jobs, verdict, file, indexed, outcome>>

(* reapStopJobs: join the workers that have finished.                      *)
Reaped(j) == [s \in Sessions |-> IF j[s] = "done" THEN "joined" ELSE j[s]]

(* stopRecording: whoever takes the handle owns the teardown.              *)
stopRecording ==
  /\ Gui /\ isRecording
  /\ handle' = None
  /\ paused' = FALSE /\ autoPaused' = FALSE /\ userPaused' = FALSE
  /\ stopping' = TRUE
  /\ stopGen' = stopGen + 1
  /\ gen' = [gen EXCEPT ![handle] = stopGen + 1]
  /\ job' = [Reaped(job) EXCEPT ![handle] = "created"]
  /\ watchdog' = 0
  /\ enterFinalizingState
  /\ UNCHANGED <<app, started, quitClock, posted, engine, outcome>>

UserStops == stopRecording

(* onTick: the capture worker exited by itself.                            *)
onTick == isRecording /\ ~Alive(handle) /\ stopRecording

(* Mutant: any result ends the finalization in progress.                   *)
StopAwaitedAny(s) == stopping

StopAwaited(s) == stopping /\ gen[s] = stopGen

(* finishStop: a result nobody awaits any more is dropped.  A success is   *)
(* believed only if the file is there and not incomplete.                  *)
finishStop ==
  /\ Gui
  /\ \E s \in posted :
       /\ posted' = posted \ {s}
       /\ job' = Reaped(job)
       /\ IF StopAwaited(s)
          THEN /\ stopping' = FALSE
               /\ watchdog' = -1
               /\ \/ Emit(s, "error")
                  \/ verdict[s] = "ok" /\ Emit(s, "stopped")
          ELSE UNCHANGED <<stopping, watchdog, outcome, tray>>
  /\ UNCHANGED <<app, started, handle, stopGen, quitClock, pausing, gen,
                 engine>>

WatchdogDue == Gui /\ watchdog >= StopTimeout

(* Mutant: the gate stays closed.                                          *)
onStopTimeoutKeepsGate ==
  /\ WatchdogDue
  /\ watchdog' = -1
  /\ stopGen' = stopGen + 1
  /\ leaveRecordingState
  /\ UNCHANGED <<app, started, handle, stopping, quitClock, pausing, jobs, engine,
                 outcome>>

(* Give up on a wedged stop: its late result is invalidated, its job kept. *)
onStopTimeout ==
  /\ WatchdogDue
  /\ watchdog' = -1
  /\ stopping' = FALSE
  /\ stopGen' = stopGen + 1
  /\ \E s \in Sessions : gen[s] = stopGen /\ Emit(s, "error")
  /\ UNCHANGED <<app, started, handle, quitClock, pausing, jobs, engine>>

-----------------------------------------------------------------------------
(* The destructor, after the event loop has ended.                         *)

Quit ==
  /\ Gui
  /\ app' = "quitting"
  /\ quitClock' = 0
  /\ watchdog' = -1
  /\ UNCHANGED <<started, handle, stopping, stopGen, pausing, jobs, engine, shown>>

Unfinished == {s \in Sessions : job[s] \notin {"none", "done", "joined"}}

(* All stop jobs joined; a recording still running gets a worker and a     *)
(* deadline of its own.                                                    *)
JoinJobs ==
  /\ app = "quitting"
  /\ Unfinished = {}
  /\ posted' = {}
  /\ IF isRecording
     THEN /\ app' = "finalizing"
          /\ handle' = None
          /\ job' = [Reaped(job) EXCEPT ![handle] = "created"]
          /\ quitClock' = 0
     ELSE /\ app' = "gone"
          /\ job' = Reaped(job)
          /\ UNCHANGED <<handle, quitClock>>
  /\ UNCHANGED <<started, stopping, stopGen, watchdog, pausing, gen,
                 engine, shown>>

JoinOwnStop ==
  /\ app = "finalizing"
  /\ Unfinished = {}
  /\ app' = "gone"
  /\ job' = Reaped(job)
  /\ UNCHANGED <<started, handle, stopping, stopGen, watchdog, quitClock, pausing,
                 gen, posted, engine, shown>>

QuitOverdue == app \in {"quitting", "finalizing"} /\ quitClock >= QuitDeadline

(* Mutant: return to main with the worker detached.                        *)
DetachAndReturn ==
  /\ QuitOverdue
  /\ Unfinished # {}
  /\ app' = "gone"
  /\ UNCHANGED <<started, handle, stopping, stopGen, watchdog, quitClock, pausing,
                 jobs, engine, shown>>

Abort ==
  /\ QuitOverdue
  /\ Unfinished # {}
  /\ app' = "aborted"
  /\ UNCHANGED <<started, handle, stopping, stopGen, watchdog, quitClock, pausing,
                 jobs, engine, shown>>

-----------------------------------------------------------------------------
(* The stop worker of session s: recordStop (two steps of the engine, then *)
(* its tidying), recordFreeHandle, post the result, set the promise.       *)
Process == app \notin {"gone", "aborted"}

WorkerStep(s, from, to) ==
  /\ Process
  /\ job[s] = from
  /\ job' = [job EXCEPT ![s] = to]
  /\ UNCHANGED <<control, pausing, gen, shown>>

CallRecordStop(s) ==
  /\ WorkerStep(s, "created", "stop")
  /\ phase' = [phase EXCEPT ![s] = "over"]
  /\ UNCHANGED <<posted, verdict, file, indexed>>

StopAnswers(s) ==
  /\ WorkerStep(s, "stop", "tidy")
  /\ verdict' \in {[verdict EXCEPT ![s] = v] :
                     v \in {"error"} \cup IF file[s] = "complete" THEN {"ok"} ELSE {}}
  /\ UNCHANGED <<posted, phase, file, indexed>>

(* Mutant: the file is indexed whatever stop() answered.                   *)
RecordStopIndexes(s) ==
  /\ WorkerStep(s, "tidy", "freed")
  /\ file' = file
  /\ indexed' = [indexed EXCEPT ![s] = TRUE]
  /\ UNCHANGED <<posted, phase, verdict>>

RecordStopReturns(s) ==
  /\ WorkerStep(s, "tidy", "freed")
  /\ file' = IF verdict[s] = "error" /\ file[s] = "empty"
             THEN [file EXCEPT ![s] = "none"] ELSE file
  /\ indexed' \in IF verdict[s] = "ok"
                  THEN {indexed, [indexed EXCEPT ![s] = TRUE]} ELSE {indexed}
  /\ UNCHANGED <<posted, phase, verdict>>

(* The destructor's own worker has nobody to post to.                      *)
PostResult(s) ==
  /\ WorkerStep(s, "freed", "posted")
  /\ posted' = IF gen[s] # 0 THEN posted \cup {s} ELSE posted
  /\ UNCHANGED <<engine>>

SetPromise(s) ==
  /\ WorkerStep(s, "posted", "done")
  /\ UNCHANGED <<posted, engine>>

-----------------------------------------------------------------------------
(* The engine of session s between start and stop, and the clock.          *)

EngineEnds(s) ==
  /\ Process /\ Alive(s)
  /\ phase' = [phase EXCEPT ![s] = "over"]
  /\ UNCHANGED <<control, pausing, jobs, verdict, file, indexed, shown>>

FileCompletes(s) ==
  /\ Process /\ phase[s] = "over" /\ verdict[s] = "none" /\ file[s] = "empty"
  /\ file' = [file EXCEPT ![s] = "complete"]
  /\ UNCHANGED <<control, pausing, jobs, phase, verdict, indexed, shown>>

Prompt ==
  /\ \A s \in Sessions : job[s] \notin {"created", "tidy", "freed", "posted"}
  /\ Gui => posted = {} /\ ~WatchdogDue /\ ~(isRecording /\ ~Alive(handle))
  /\ ~QuitOverdue

Tick ==
  /\ Process
  /\ Prompt
  /\ watchdog' = IF watchdog = -1 THEN -1 ELSE watchdog + 1
  /\ quitClock' = IF Gui THEN 0 ELSE quitClock + 1
  /\ UNCHANGED <<app, started, handle, stopping, stopGen, pausing, gen, job,
                 posted, engine, shown>>

-----------------------------------------------------------------------------
GuiReacts    == onTick \/ finishStop \/ onStopTimeout
UserActs     == StartRecording \/ StartFails \/ UserPauses \/ UserResumes
                \/ UserStops \/ SystemSleeps \/ SystemWakes \/ Quit
DtorStep     == JoinJobs \/ JoinOwnStop \/ Abort
RunsThrough(s) == CallRecordStop(s) \/ RecordStopReturns(s) \/ PostResult(s) \/ SetPromise(s)

Next ==
  \/ UserActs
  \/ GuiReacts
  \/ DtorStep
  \/ \E s \in Sessions : \/ RunsThrough(s)
                         \/ StopAnswers(s)
                         \/ EngineEnds(s)
                         \/ FileCompletes(s)
  \/ Tick

Spec == Init /\ [][Next]_vars

(* The event loop and the timers run, and so do the threads; recordStop    *)
(* itself may never answer.                                                *)
FairSpec ==
  /\ Spec
  /\ WF_vars(onTick) /\ WF_vars(finishStop) /\ WF_vars(onStopTimeout)
  /\ WF_vars(DtorStep)
  /\ WF_vars(Tick)
  /\ \A s \in Sessions : WF_vars(RunsThrough(s))
-----------------------------------------------------------------------------
(* Properties.                                                             *)

(* Types; an armed watchdog belongs to the finalization in progress.       *)
TypeOK ==
  /\ app \in {"running", "quitting", "finalizing", "gone", "aborted"}
  /\ started \in 0..MaxSessions
  /\ handle \in 0..started
  /\ paused \in BOOLEAN /\ autoPaused \in BOOLEAN /\ userPaused \in BOOLEAN
  /\ stopping \in BOOLEAN
  /\ stopGen \in 0..(2 * MaxSessions)
  /\ watchdog \in -1..StopTimeout
  /\ quitClock \in 0..QuitDeadline
  /\ gen \in [Sessions -> 0..stopGen]
  /\ job \in [Sessions -> JobStates]
  /\ posted \subseteq Sessions
  /\ phase \in [Sessions -> {"idle", "recording", "paused", "over"}]
  /\ verdict \in [Sessions -> {"none", "ok", "error"}]
  /\ file \in [Sessions -> {"none", "empty", "complete"}]
  /\ indexed \in [Sessions -> BOOLEAN]
  /\ tray \in [shown : BOOLEAN, finalizing : BOOLEAN, paused : BOOLEAN]
  /\ \A s \in Sessions : Len(outcome[s]) <= 1
  /\ Gui => (watchdog # -1 <=> stopping)

(* The user always sees the recording there is, and can stop it: the tray  *)
(* is in its recording state exactly while a recording runs or finalizes,  *)
(* it offers pause or resume as the recording is, and nothing to stop only *)
(* while finalizing.                                                       *)
TrayFollows ==
  Gui => /\ tray.shown <=> isRecording \/ stopping
         /\ tray.finalizing <=> stopping
         /\ isRecording => (tray.paused <=> paused)

(* Every session gets exactly one final signal: none as long as it records *)
(* or its finalization is awaited, and neither a late result nor the       *)
(* watchdog adds one to it or takes one from the next session.  That next  *)
(* session does not start while the previous one still captures: the       *)
(* handle is gone from the moment stop begins, so only the stopping flag   *)
(* stands between them.                                                    *)
SessionAccounted ==
  /\ Gui => \A s \in 1..started :
              Len(outcome[s]) =
                IF s = handle \/ (stopping /\ gen[s] = stopGen) THEN 0 ELSE 1
  /\ Cardinality({s \in Sessions : Alive(s)}) <= 1

(* The destructor returns only when no stop worker is left to call into    *)
(* Rust and no recording runs; otherwise the process is aborted.           *)
TeardownSafe ==
  app = "gone" => \A s \in Sessions : job[s] \in {"none", "joined"} /\ ~Alive(s)

(* Every session is accounted for, up to and including the last one.       *)
SessionsEndOnce == SessionAccounted /\ TeardownSafe

(* A recording the user paused is not resumed by the machine waking up.    *)
ManualPauseKept == [][SystemWakes /\ userPaused => paused']_vars

(* What the manager does to each session's engine is what RecordingEngine  *)
(* promises to support: begun once, stopped once, tidied once.             *)
Engine(s) == INSTANCE RecordingLifecycle
  WITH phase <- phase[s], verdict <- verdict[s], file <- file[s],
       indexed <- indexed[s]

EngineContract ==
  [][\A s \in Sessions : Engine(s)!Next \/ UNCHANGED Engine(s)!vars]_vars

(* The app is stuck nowhere, even if a stop wedges for good: finalizing    *)
(* ends, a recording that dies by itself is reported without the user      *)
(* asking, and quitting ends.                                              *)
NeverStuck ==
  /\ stopping ~> ~stopping \/ ~Gui
  /\ \A s \in Sessions :
       handle = s /\ ~Alive(s) ~> outcome[s] # <<>> \/ ~Gui
  /\ app = "quitting" ~> ~Process
=============================================================================

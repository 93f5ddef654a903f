------------------------- MODULE RecordingManagerProofs -------------------------
(***************************************************************************)
(* Proofs about RecordingManager for any number of sessions and any        *)
(* deadlines: every session ends with one signal, the tray shows what      *)
(* there is, a pause of the user's survives a wake-up, the destructor      *)
(* leaves nobody behind, and each session's engine is used as              *)
(* RecordingLifecycle allows.                                              *)
(*                                                                         *)
(* The argument follows who owns a session: m_handle while it records,     *)
(* then exactly one stop job, whose generation says whether its result is  *)
(* still awaited.                                                          *)
(***************************************************************************)
EXTENDS RecordingManager, FiniteSetTheorems, TLAPS

Finals == {<<>>, <<"error">>, <<"stopped">>}

Types ==
  /\ app \in {"running", "quitting", "finalizing", "gone", "aborted"}
  /\ started \in 0..MaxSessions
  /\ handle \in 0..started
  /\ stopGen \in Nat
  /\ watchdog \in -1..StopTimeout
  /\ quitClock \in 0..QuitDeadline
  /\ gen \in [Sessions -> Nat]
  /\ job \in [Sessions -> JobStates]
  /\ posted \subseteq Sessions
  /\ outcome \in [Sessions -> Finals]

Flags ==
  /\ paused \in BOOLEAN /\ autoPaused \in BOOLEAN /\ userPaused \in BOOLEAN
  /\ stopping \in BOOLEAN
  /\ tray \in [shown : BOOLEAN, finalizing : BOOLEAN, paused : BOOLEAN]

EngineTypes ==
  /\ phase \in [Sessions -> {"idle", "recording", "paused", "over"}]
  /\ verdict \in [Sessions -> {"none", "ok", "error"}]
  /\ file \in [Sessions -> {"none", "empty", "complete"}]
  /\ indexed \in [Sessions -> BOOLEAN]

(* The watchdog runs exactly during a finalization, which no recording     *)
(* overlaps; a session costs at most two generations.                      *)
Clocks ==
  /\ Gui => (watchdog # -1 <=> stopping)
  /\ ~Gui => watchdog = -1
  /\ stopping => handle = None /\ stopGen # 0 /\ stopGen <= 2 * started - 1
  /\ handle # None => stopGen <= 2 * started - 2
  /\ stopGen <= 2 * started
  /\ app \in {"finalizing", "gone"} => handle = None

(* Sessions not yet attempted are untouched.                               *)
Future ==
  \A s \in Sessions : s > started =>
    /\ phase[s] = "idle" /\ verdict[s] = "none"
    /\ gen[s] = 0 /\ job[s] = "none" /\ outcome[s] = <<>>

(* What is settled at each stage of a session's stop job.                  *)
JobStage(s) ==
  /\ s \in posted => job[s] \in {"posted", "done", "joined"} /\ gen[s] # 0
  /\ gen[s] # 0 => job[s] # "none"
  /\ gen[s] <= stopGen
  /\ s = handle => job[s] = "none" /\ phase[s] # "idle"
  /\ job[s] = "created" => phase[s] # "idle"
  /\ job[s] \notin {"none", "created"} => phase[s] = "over"
  /\ s = handle \/ job[s] \in {"created", "stop"} => verdict[s] = "none"
  /\ Alive(s) => s = handle \/ job[s] = "created"

Jobs == \A s \in Sessions : JobStage(s)

(* A job that has not called recordStop yet belongs to the finalization in *)
(* progress, and no recording and no other such job is there.              *)
Created ==
  \A s \in Sessions : job[s] = "created" =>
    /\ handle = None
    /\ Gui => stopping /\ gen[s] = stopGen /\ watchdog = 0
    /\ \A t \in Sessions : job[t] = "created" => t = s

(* A generation is given to one session only.                              *)
Generations ==
  \A s, t \in Sessions : s # t /\ gen[s] = gen[t] => gen[s] = 0

(* A final signal is missing exactly while it is still to come.            *)
Awaited(s) == s = handle \/ (stopping /\ gen[s] = stopGen)
Accounted ==
  Gui => \A s \in Sessions : s <= started => (outcome[s] = <<>> <=> Awaited(s))

(* The auto-resume is armed only for a pause the sleep has made.           *)
Pauses ==
  /\ autoPaused => paused /\ ~userPaused
  /\ userPaused => paused

Control == Types /\ Flags /\ Clocks /\ Pauses /\ TrayFollows
Work    == EngineTypes /\ Future /\ Jobs /\ Created /\ Generations
ManagerInv == Control /\ Work /\ Accounted /\ TeardownSafe

USE LimitsAssumption DEF Sessions, None, Gui

(* Before the first session the invariant holds.                           *)
LEMMA Initially == Init => ManagerInv
<1> SUFFICES ASSUME Init PROVE ManagerInv
  OBVIOUS
<1>1. Types
  <2>1. outcome \in [Sessions -> Finals]
    BY DEF Init, Finals
  <2>3. job \in [Sessions -> JobStates] /\ gen \in [Sessions -> Nat]
    BY DEF Init, JobStates
  <2>4. watchdog \in -1..StopTimeout /\ quitClock \in 0..QuitDeadline
    BY DEF Init
  <2> QED
    BY <2>1, <2>3, <2>4 DEF Init, Types
<1>5. Flags
  BY DEF Init, Flags, IdleTray
<1>2. Clocks /\ Pauses /\ TrayFollows
  BY DEF Init, Clocks, Pauses, TrayFollows, IdleTray, isRecording
<1>3. Work
  BY DEF Init, Work, EngineTypes, Future, Jobs, JobStage, Created, Generations, Alive
<1>4. Accounted /\ TeardownSafe
  BY DEF Init, Accounted, TeardownSafe
<1> QED
  BY <1>1, <1>2, <1>3, <1>4, <1>5 DEF ManagerInv, Control

(* A final signal is the first one of its session.                         *)
LEMMA FirstSignal ==
  /\ Append(<<>>, "error") = <<"error">> /\ Append(<<>>, "stopped") = <<"stopped">>
  /\ <<"error">> # <<>> /\ <<"stopped">> # <<>>
  /\ \A o \in Finals : Len(o) <= 1 /\ Len(o) = IF o = <<>> THEN 0 ELSE 1
<1>1. Len(<<>>) = 0 /\ Len(<<"error">>) = 1 /\ Len(<<"stopped">>) = 1
  OBVIOUS
<1> QED
  BY <1>1 DEF Finals

(* What emitting a session's first final signal does.                      *)
LEMMA Emitted ==
  ASSUME Types, NEW s \in Sessions, NEW signal \in {"error", "stopped"},
         outcome[s] = <<>>, Emit(s, signal)
  PROVE  /\ outcome' \in [Sessions -> Finals] /\ outcome'[s] # <<>>
         /\ \A t \in Sessions : t # s => outcome'[t] = outcome[t]
         /\ tray' = IdleTray
  BY FirstSignal DEF Types, Finals, Emit, leaveRecordingState

(* A recording starts, or fails to.                                        *)
LEMMA StartKeeps ==
  ASSUME ManagerInv, StartRecording \/ StartFails
  PROVE  ManagerInv'
<1> USE DEF ManagerInv, Control, Work
<1>1. PICK s \in Sessions : s = started + 1
  BY DEF StartRecording, StartFails, MayStart, Types
<1>2. /\ app = "running" /\ handle = 0 /\ ~stopping /\ started' = s
      /\ UNCHANGED <<app, stopping, stopGen, watchdog, quitClock, jobs, indexed>>
  BY <1>1 DEF StartRecording, StartFails, MayStart, isRecording
<1>3. /\ phase[s] = "idle" /\ verdict[s] = "none" /\ gen[s] = 0 /\ job[s] = "none" /\ outcome[s] = <<>>
  BY <1>1 DEF Future, Types
<1>4. \A t \in Sessions : job[t] # "created"
  BY <1>2 DEF Created
<1>5. CASE StartRecording
  <2>1. /\ handle' = s /\ phase' = [phase EXCEPT ![s] = "recording"]
        /\ UNCHANGED <<verdict, outcome>>
        /\ file' = [file EXCEPT ![s] = "empty"]
        /\ paused' = FALSE /\ autoPaused' = FALSE /\ userPaused' = FALSE
        /\ tray' = [IdleTray EXCEPT !.shown = TRUE]
    BY <1>1, <1>5 DEF StartRecording, enterRecordingState
  <2>9. tray' = [shown |-> TRUE, finalizing |-> FALSE, paused |-> FALSE]
    BY <2>1 DEF IdleTray
  <2>2. Types' /\ Clocks'
    BY <1>1, <1>2, <2>1 DEF Types, Clocks, jobs
  <2>10. Flags'
    <3>1. tray' \in [shown : BOOLEAN, finalizing : BOOLEAN, paused : BOOLEAN]
      BY <2>9
    <3>2. stopping' = stopping /\ paused' = FALSE /\ autoPaused' = FALSE /\ userPaused' = FALSE
      BY <1>2, <2>1
    <3> QED
      BY <3>1, <3>2 DEF Flags
  <2>7. Pauses' /\ TrayFollows'
    BY <1>1, <1>2, <2>1, <2>9 DEF Flags, Pauses, TrayFollows, isRecording
  <2>3. EngineTypes' /\ Future' /\ Generations'
    BY <1>1, <1>2, <2>1 DEF Types, EngineTypes, Future, Generations, jobs
  <2>4. Jobs'
    BY <1>1, <1>2, <1>3, <1>4, <2>1 DEF Types, EngineTypes, Jobs, JobStage, Alive, jobs
  <2>5. Created'
    BY <1>2, <1>4 DEF Created, jobs
  <2>6. Accounted'
    BY <1>1, <1>2, <1>3, <2>1 DEF Accounted, Awaited, Types, Flags, jobs
  <2>8. TeardownSafe'
    BY <1>2 DEF TeardownSafe
  <2> QED
    BY <2>2, <2>3, <2>4, <2>5, <2>6, <2>7, <2>8, <2>10
<1>6. CASE StartFails
  <2>1. /\ handle' = 0 /\ phase' = [phase EXCEPT ![s] = "over"]
        /\ verdict' = [verdict EXCEPT ![s] = "error"]
        /\ UNCHANGED <<file, pausing>> /\ Emit(s, "error")
    BY <1>1, <1>2, <1>6 DEF StartFails
  <2>2. /\ outcome' \in [Sessions -> Finals] /\ outcome'[s] # <<>>
        /\ \A t \in Sessions : t # s => outcome'[t] = outcome[t]
        /\ tray' = IdleTray
    BY <2>1, <1>3, Emitted
  <2>3. Types' /\ Clocks'
    BY <1>1, <1>2, <2>1, <2>2 DEF Types, Clocks, jobs
  <2>8. Flags' /\ Pauses' /\ TrayFollows'
    BY <1>1, <1>2, <2>1, <2>2
    DEF Flags, Pauses, TrayFollows, IdleTray, isRecording, pausing
  <2>4. EngineTypes' /\ Future' /\ Generations'
    BY <1>1, <1>2, <2>1, <2>2 DEF Types, EngineTypes, Future, Generations, jobs
  <2>5. Jobs'
    BY <1>1, <1>2, <1>3, <1>4, <2>1 DEF Types, EngineTypes, Jobs, JobStage, Alive, jobs
  <2>6. Created'
    BY <1>2, <1>4 DEF Created, jobs
  <2>7. Accounted' /\ TeardownSafe'
    BY <1>1, <1>2, <1>3, <2>1, <2>2 DEF Accounted, Awaited, TeardownSafe, Types, jobs
  <2> QED
    BY <2>3, <2>4, <2>5, <2>6, <2>7, <2>8
<1> QED
  BY <1>5, <1>6

(* Only the flags of the pause change.                                     *)
LEMMA OnlyPauseFlags ==
  ASSUME ManagerInv, UNCHANGED <<control, jobs, engine, shown, paused>>,
         autoPaused' \in BOOLEAN, userPaused' \in BOOLEAN, Pauses'
  PROVE  ManagerInv'
<1> USE DEF ManagerInv, Control, Work, control, jobs, engine, shown
<1>1. Types' /\ Clocks'
  BY DEF Types, Clocks
<1>2. Flags'
  BY DEF Flags
<1>3. TrayFollows'
  BY DEF TrayFollows, isRecording
<1>4. EngineTypes' /\ Future' /\ Jobs' /\ Created' /\ Generations'
  BY DEF EngineTypes, Future, Jobs, JobStage, Alive, Created, Generations
<1>5. Accounted' /\ TeardownSafe'
  BY DEF Accounted, Awaited, TeardownSafe, Alive
<1> QED
  BY <1>1, <1>2, <1>3, <1>4, <1>5

(* The recording of m_handle is paused or resumed, and the tray follows.   *)
LEMMA PauseFollowed ==
  ASSUME ManagerInv, app = "running", handle # None,
         NEW b \in BOOLEAN, NEW p \in {"recording", "paused"},
         phase' = [phase EXCEPT ![handle] = p], paused' = b, setPaused(b),
         Alive(handle),
         UNCHANGED <<control, jobs, verdict, file, indexed, outcome>>,
         autoPaused' \in BOOLEAN, userPaused' \in BOOLEAN, Pauses'
  PROVE  ManagerInv'
<1> USE DEF ManagerInv, Control, Work, control, jobs
<1>1. handle \in Sessions /\ ~stopping /\ tray.shown /\ ~tray.finalizing
  BY DEF Types, Clocks, TrayFollows, isRecording
<1>2. tray' = [tray EXCEPT !.paused = b]
  BY <1>1 DEF setPaused
<1>3. Types' /\ Clocks'
  BY DEF Types, Clocks
<1>4. Flags'
  <2>1. tray' \in [shown : BOOLEAN, finalizing : BOOLEAN, paused : BOOLEAN]
    BY <1>2 DEF Flags
  <2> QED
    BY <2>1 DEF Flags
<1>5. TrayFollows'
  BY <1>1, <1>2 DEF TrayFollows, isRecording, Flags
<1>6. EngineTypes' /\ Future'
  BY <1>1 DEF EngineTypes, Future, Types
<1>7. Jobs' /\ Created' /\ Generations'
  BY <1>1 DEF EngineTypes, Jobs, JobStage, Alive, Created, Generations
<1>8. Accounted' /\ TeardownSafe'
  BY DEF Accounted, Awaited, TeardownSafe
<1> QED
  BY <1>3, <1>4, <1>5, <1>6, <1>7, <1>8

(* Pausing and resuming, by the user or by the machine's sleep and wake.   *)
LEMMA PausingKeeps ==
  ASSUME ManagerInv, UserPauses \/ UserResumes \/ SystemSleeps \/ SystemWakes
  PROVE  ManagerInv'
<1> USE DEF isRecording
<1>1. Flags /\ Pauses
  BY DEF ManagerInv, Control
<1>2. CASE UserPauses
  <2>1. app = "running" /\ handle # None /\ ~paused /\ pauseRecording
        /\ userPaused' = paused' /\ autoPaused' = autoPaused
        /\ UNCHANGED <<control, jobs, verdict, file, indexed, outcome>>
    BY <1>2 DEF UserPauses
  <2>2. CASE Alive(handle)
    <3>1. phase' = [phase EXCEPT ![handle] = "paused"] /\ paused' = TRUE /\ setPaused(TRUE)
      BY <2>1, <2>2 DEF pauseRecording
    <3>2. Pauses' /\ autoPaused' \in BOOLEAN /\ userPaused' \in BOOLEAN
      BY <2>1, <3>1, <1>1 DEF Pauses, Flags
    <3> QED
      BY <2>1, <2>2, <3>1, <3>2, PauseFollowed
  <2>3. CASE ~Alive(handle)
    <3>1. UNCHANGED <<control, jobs, engine, shown, paused>>
      BY <2>1, <2>3 DEF pauseRecording, engine, shown
    <3>2. Pauses' /\ autoPaused' \in BOOLEAN /\ userPaused' \in BOOLEAN
      BY <2>1, <3>1, <1>1 DEF Pauses, Flags
    <3> QED
      BY <3>1, <3>2, OnlyPauseFlags
  <2> QED
    BY <2>2, <2>3
<1>3. CASE UserResumes
  <2>1. app = "running" /\ handle # None /\ paused /\ resumeRecording
        /\ autoPaused' = (autoPaused /\ paused')
        /\ UNCHANGED <<control, jobs, verdict, file, indexed, outcome>>
    BY <1>3 DEF UserResumes
  <2>2. CASE Alive(handle)
    <3>1. phase' = [phase EXCEPT ![handle] = "recording"] /\ paused' = FALSE
          /\ userPaused' = FALSE /\ setPaused(FALSE)
      BY <2>1, <2>2 DEF resumeRecording
    <3>2. Pauses' /\ autoPaused' \in BOOLEAN /\ userPaused' \in BOOLEAN
      BY <2>1, <3>1, <1>1 DEF Pauses, Flags
    <3> QED
      BY <2>1, <2>2, <3>1, <3>2, PauseFollowed
  <2>3. CASE ~Alive(handle)
    <3>1. UNCHANGED <<control, jobs, engine, shown, paused, userPaused>>
      BY <2>1, <2>3 DEF resumeRecording, engine, shown
    <3>2. Pauses' /\ autoPaused' \in BOOLEAN /\ userPaused' \in BOOLEAN
      BY <2>1, <3>1, <1>1 DEF Pauses, Flags
    <3> QED
      BY <3>1, <3>2, OnlyPauseFlags
  <2> QED
    BY <2>2, <2>3
<1>4. CASE SystemSleeps
  <2>1. app = "running" /\ handle # None /\ ~paused /\ pauseRecording
        /\ autoPaused' = paused' /\ userPaused' = userPaused
        /\ UNCHANGED <<control, jobs, verdict, file, indexed, outcome>>
    BY <1>4 DEF SystemSleeps
  <2>2. CASE Alive(handle)
    <3>1. phase' = [phase EXCEPT ![handle] = "paused"] /\ paused' = TRUE /\ setPaused(TRUE)
      BY <2>1, <2>2 DEF pauseRecording
    <3>2. Pauses' /\ autoPaused' \in BOOLEAN /\ userPaused' \in BOOLEAN
      BY <2>1, <3>1, <1>1 DEF Pauses, Flags
    <3> QED
      BY <2>1, <2>2, <3>1, <3>2, PauseFollowed
  <2>3. CASE ~Alive(handle)
    <3>1. UNCHANGED <<control, jobs, engine, shown, paused>>
      BY <2>1, <2>3 DEF pauseRecording, engine, shown
    <3>2. Pauses' /\ autoPaused' \in BOOLEAN /\ userPaused' \in BOOLEAN
      BY <2>1, <3>1, <1>1 DEF Pauses, Flags
    <3> QED
      BY <3>1, <3>2, OnlyPauseFlags
  <2> QED
    BY <2>2, <2>3
<1>5. CASE SystemWakes
  <2>1. app = "running" /\ autoPaused' = FALSE
        /\ UNCHANGED <<control, jobs, verdict, file, indexed, outcome>>
        /\ \/ handle # None /\ resumeRecording
           \/ UNCHANGED <<phase, paused, userPaused, tray>>
    BY <1>5 DEF SystemWakes
  <2>2. CASE handle # None /\ resumeRecording /\ Alive(handle)
    <3>1. phase' = [phase EXCEPT ![handle] = "recording"] /\ paused' = FALSE
          /\ userPaused' = FALSE /\ setPaused(FALSE)
      BY <2>2 DEF resumeRecording
    <3>2. Pauses' /\ autoPaused' \in BOOLEAN /\ userPaused' \in BOOLEAN
      BY <2>1, <3>1 DEF Pauses
    <3> QED
      BY <2>1, <2>2, <3>1, <3>2, PauseFollowed
  <2>3. CASE ~(handle # None /\ resumeRecording /\ Alive(handle))
    <3>1. UNCHANGED <<control, jobs, engine, shown, paused, userPaused>>
      BY <2>1, <2>3 DEF resumeRecording, engine, shown
    <3>2. Pauses' /\ autoPaused' \in BOOLEAN /\ userPaused' \in BOOLEAN
      BY <2>1, <3>1, <1>1 DEF Pauses, Flags
    <3> QED
      BY <3>1, <3>2, OnlyPauseFlags
  <2> QED
    BY <2>2, <2>3
<1> QED
  BY <1>2, <1>3, <1>4, <1>5

(* Joining finished workers changes no unfinished job.                     *)
LEMMA ReapedFacts ==
  ASSUME Types, NEW s \in Sessions
  PROVE  /\ Reaped(job)[s] \in JobStates
         /\ Reaped(job)[s] = IF job[s] = "done" THEN "joined" ELSE job[s]
  BY DEF Types, Reaped, JobStates

(* The handle is taken and its stop job created.                           *)
LEMMA StopKeeps ==
  ASSUME ManagerInv, stopRecording
  PROVE  ManagerInv'
<1> USE DEF ManagerInv, Control, Work
<1>1. PICK h \in Sessions : h = handle /\ h <= started
  BY DEF stopRecording, isRecording, Types
<1>2. /\ app = "running" /\ handle = h /\ handle' = 0 /\ ~stopping /\ stopping' = TRUE
      /\ stopGen' = stopGen + 1 /\ watchdog' = 0 /\ stopGen <= 2 * started - 2
      /\ gen' = [gen EXCEPT ![h] = stopGen + 1]
      /\ UNCHANGED <<app, started, quitClock, posted, engine, outcome>>
  BY <1>1 DEF stopRecording, isRecording, Clocks, Types
<1>3. /\ job' \in [Sessions -> JobStates] /\ job'[h] = "created"
      /\ \A s \in Sessions : s # h =>
           job'[s] = IF job[s] = "done" THEN "joined" ELSE job[s]
  BY <1>1, ReapedFacts DEF stopRecording, Reaped, Types, JobStates
<1>4. JobStage(h) /\ \A s \in Sessions : job[s] # "created"
  BY <1>1, <1>2 DEF Jobs, Created
<1>5. Types' /\ Clocks'
  BY <1>1, <1>2, <1>3 DEF Types, Clocks
<1>6. /\ paused' = FALSE /\ autoPaused' = FALSE /\ userPaused' = FALSE
      /\ tray' = [tray EXCEPT !.finalizing = TRUE] /\ tray.shown
  BY <1>1, <1>2 DEF stopRecording, enterFinalizingState, TrayFollows, isRecording
<1>7. Flags'
  <2>1. tray' \in [shown : BOOLEAN, finalizing : BOOLEAN, paused : BOOLEAN]
    BY <1>6 DEF Flags
  <2> QED
    BY <1>2, <1>6, <2>1 DEF Flags
<1>8. Pauses' /\ TrayFollows'
  BY <1>2, <1>6 DEF Pauses, TrayFollows, isRecording, Flags
<1>9. EngineTypes' /\ Future'
  BY <1>1, <1>2, <1>3 DEF EngineTypes, Future, Types, engine
<1>10. Jobs'
  <2> SUFFICES ASSUME NEW s \in Sessions PROVE JobStage(s)'
    BY DEF Jobs
  <2>1. CASE s = h
    BY <1>1, <1>2, <1>3, <1>4, <2>1 DEF Types, JobStage, Alive, engine
  <2>2. CASE s # h
    <3>1. JobStage(s) /\ gen'[s] = gen[s]
      BY <1>2, <2>2 DEF Jobs, Types
    <3> QED
      BY <1>1, <1>2, <1>3, <2>2, <3>1 DEF Types, JobStage, Alive, engine
  <2> QED
    BY <2>1, <2>2
<1>11. Created'
  BY <1>1, <1>2, <1>3, <1>4 DEF Created, Types
<1>12. Generations'
  BY <1>1, <1>2 DEF Generations, Jobs, JobStage, Types
<1>13. Accounted'
  BY <1>1, <1>2 DEF Accounted, Awaited, Jobs, JobStage, Types
<1>14. TeardownSafe'
  BY <1>2 DEF TeardownSafe
<1> QED
  BY <1>5, <1>7, <1>8, <1>9, <1>10, <1>11, <1>12, <1>13, <1>14

(* The result of a stop job reaches the GUI thread.                        *)
LEMMA FinishKeeps ==
  ASSUME ManagerInv, finishStop
  PROVE  ManagerInv'
<1> USE DEF ManagerInv, Control, Work
<1>1. PICK s \in posted :
         /\ posted' = posted \ {s}
         /\ job' = Reaped(job)
         /\ IF StopAwaited(s)
            THEN /\ stopping' = FALSE
                 /\ watchdog' = -1
                 /\ \/ Emit(s, "error")
                    \/ verdict[s] = "ok" /\ Emit(s, "stopped")
            ELSE UNCHANGED <<stopping, watchdog, outcome, tray>>
  BY DEF finishStop
<1>2. /\ app = "running" /\ s \in Sessions
      /\ UNCHANGED <<app, started, handle, stopGen, quitClock, pausing, gen, engine>>
  BY <1>1 DEF finishStop, Types
<1>3. /\ job' \in [Sessions -> JobStates]
      /\ \A t \in Sessions : job'[t] = IF job[t] = "done" THEN "joined" ELSE job[t]
  BY <1>1, ReapedFacts DEF Reaped, Types, JobStates
<1>4. job[s] # "created" /\ gen[s] # 0 /\ s # handle /\ s <= started
  BY <1>1, <1>2 DEF Jobs, JobStage, Future, Types
<1>5. EngineTypes' /\ Generations' /\ TeardownSafe'
  BY <1>2 DEF EngineTypes, Generations, TeardownSafe, engine
<1>6. Jobs'
  <2> SUFFICES ASSUME NEW t \in Sessions PROVE JobStage(t)'
    BY DEF Jobs
  <2>1. JobStage(t)
    BY DEF Jobs
  <2> QED
    BY <1>1, <1>2, <1>3, <2>1 DEF JobStage, Alive, engine
<1>7. CASE StopAwaited(s)
  <2>1. stopping /\ gen[s] = stopGen /\ stopping' = FALSE /\ watchdog' = -1
    BY <1>1, <1>7 DEF StopAwaited
  <2>2. outcome[s] = <<>> /\ handle = 0
    BY <1>2, <1>4, <2>1 DEF Accounted, Awaited, Clocks
  <2>3. /\ outcome' \in [Sessions -> Finals] /\ outcome'[s] # <<>>
        /\ \A t \in Sessions : t # s => outcome'[t] = outcome[t]
        /\ tray' = IdleTray
    BY <1>1, <1>2, <1>7, <2>2, Emitted
  <2>4. \A t \in Sessions : job[t] # "created"
    BY <1>2, <1>4, <2>1 DEF Created, Generations
  <2>5. Types' /\ Clocks'
    BY <1>1, <1>2, <1>3, <2>1, <2>2, <2>3 DEF Types, Clocks
  <2>6. Flags'
    <3>1. tray' \in [shown : BOOLEAN, finalizing : BOOLEAN, paused : BOOLEAN]
      BY <2>3 DEF IdleTray
    <3> QED
      BY <1>2, <2>1, <3>1 DEF Flags, pausing
  <2>7. Pauses' /\ TrayFollows'
    BY <1>2, <2>1, <2>2, <2>3
    DEF Flags, Pauses, TrayFollows, IdleTray, isRecording, pausing
  <2>8. Future' /\ Created'
    BY <1>2, <1>3, <1>4, <2>3, <2>4 DEF Future, Created, engine, Types
  <2>9. Accounted'
    BY <1>2, <1>4, <2>1, <2>2, <2>3 DEF Accounted, Awaited, Generations
  <2> QED
    BY <1>5, <1>6, <2>5, <2>6, <2>7, <2>8, <2>9
<1>8. CASE ~StopAwaited(s)
  <2>1. UNCHANGED <<stopping, watchdog, outcome, tray>>
    BY <1>1, <1>8
  <2>2. Types' /\ Clocks'
    BY <1>1, <1>2, <1>3, <2>1 DEF Types, Clocks
  <2>3. Flags' /\ Pauses' /\ TrayFollows'
    BY <1>2, <2>1 DEF Flags, Pauses, TrayFollows, isRecording, pausing
  <2>4. Future' /\ Created' /\ Accounted'
    BY <1>2, <1>3, <2>1 DEF Future, Created, Accounted, Awaited, engine
  <2> QED
    BY <1>5, <1>6, <2>2, <2>3, <2>4
<1> QED
  BY <1>7, <1>8

(* The watchdog gives up on the stop in progress.                          *)
LEMMA TimeoutKeeps ==
  ASSUME ManagerInv, onStopTimeout
  PROVE  ManagerInv'
<1> USE DEF ManagerInv, Control, Work
<1>1. PICK s \in Sessions : gen[s] = stopGen /\ Emit(s, "error")
  BY DEF onStopTimeout
<1>2. /\ app = "running" /\ watchdog > 0 /\ watchdog' = -1 /\ stopping' = FALSE
      /\ stopGen' = stopGen + 1
      /\ UNCHANGED <<app, started, handle, quitClock, pausing, jobs, engine>>
  BY DEF onStopTimeout, WatchdogDue, Types
<1>3. stopping /\ handle = 0 /\ stopGen # 0
  BY <1>2 DEF Clocks, Types
<1>4. s <= started /\ \A t \in Sessions : job[t] # "created"
  BY <1>1, <1>2, <1>3 DEF Future, Created, Types
<1>5. outcome[s] = <<>>
  BY <1>1, <1>2, <1>3, <1>4 DEF Accounted, Awaited
<1>6. /\ outcome' \in [Sessions -> Finals] /\ outcome'[s] # <<>>
      /\ \A t \in Sessions : t # s => outcome'[t] = outcome[t]
      /\ tray' = IdleTray
  BY <1>1, <1>5, Emitted
<1>7. Types' /\ Clocks'
  BY <1>2, <1>3, <1>6 DEF Types, Clocks, jobs
<1>8. Flags'
  <2>1. tray' \in [shown : BOOLEAN, finalizing : BOOLEAN, paused : BOOLEAN]
    BY <1>6 DEF IdleTray
  <2> QED
    BY <1>2, <2>1 DEF Flags, pausing
<1>9. Pauses' /\ TrayFollows'
  BY <1>2, <1>3, <1>6 DEF Flags, Pauses, TrayFollows, IdleTray, isRecording, pausing
<1>10. EngineTypes' /\ Future' /\ Created' /\ Generations'
  BY <1>2, <1>4, <1>6 DEF EngineTypes, Future, Created, Generations, engine, jobs, Types
<1>11. Jobs'
  BY <1>2 DEF Jobs, JobStage, Alive, engine, jobs, Types
<1>12. Accounted'
  BY <1>1, <1>2, <1>3, <1>6 DEF Accounted, Awaited, Generations, jobs
<1>13. TeardownSafe'
  BY <1>2 DEF TeardownSafe
<1> QED
  BY <1>7, <1>8, <1>9, <1>10, <1>11, <1>12, <1>13

(* The event loop ends, and the destructor takes its steps.                *)
LEMMA QuitKeeps ==
  ASSUME ManagerInv, Quit \/ Abort
  PROVE  ManagerInv'
<1> USE DEF ManagerInv, Control, Work
<1>1. /\ app' \in {"quitting", "aborted"} /\ quitClock' \in 0..QuitDeadline
      /\ watchdog' = -1
      /\ UNCHANGED <<started, handle, stopping, stopGen, pausing, jobs, engine, shown>>
  BY DEF Quit, Abort, QuitOverdue, Types, Clocks
<1>2. Types' /\ Clocks'
  BY <1>1 DEF Types, Clocks, jobs, shown
<1>3. Flags' /\ Pauses' /\ TrayFollows'
  BY <1>1 DEF Flags, Pauses, TrayFollows, pausing, shown
<1>4. EngineTypes' /\ Future' /\ Generations'
  BY <1>1 DEF EngineTypes, Future, Generations, jobs, engine, shown
<1>5. Jobs' /\ Created'
  BY <1>1 DEF Jobs, JobStage, Alive, Created, jobs, engine
<1>6. Accounted' /\ TeardownSafe'
  BY <1>1 DEF Accounted, TeardownSafe
<1> QED
  BY <1>2, <1>3, <1>4, <1>5, <1>6

(* When every job is done and the handle is gone, nobody is left behind.   *)
LEMMA NobodyLeft ==
  ASSUME ManagerInv, Unfinished = {}, handle = None, NEW s \in Sessions
  PROVE  job[s] \in {"none", "done", "joined"} /\ ~Alive(s)
  BY DEF ManagerInv, Work, Jobs, JobStage, Unfinished

LEMMA JoinKeeps ==
  ASSUME ManagerInv, JoinJobs \/ JoinOwnStop
  PROVE  ManagerInv'
<1> USE DEF ManagerInv, Control, Work
<1>1. /\ app # "running" /\ Unfinished = {} /\ posted' \subseteq posted
      /\ UNCHANGED <<started, stopping, stopGen, watchdog, pausing, gen, engine, shown>>
  BY DEF JoinJobs, JoinOwnStop
<1>2. \A s \in Sessions : job[s] \in {"none", "done", "joined"}
  BY <1>1 DEF Unfinished
<1>3. CASE handle # None /\ JoinJobs
  <2>1. PICK h \in Sessions : h = handle /\ h <= started
    BY <1>3 DEF Types
  <2>2. /\ app' = "finalizing" /\ handle' = 0 /\ quitClock' = 0 /\ posted' = {}
        /\ job' = [Reaped(job) EXCEPT ![h] = "created"]
    BY <1>3, <2>1 DEF JoinJobs, isRecording
  <2>3. /\ job' \in [Sessions -> JobStates] /\ job'[h] = "created"
        /\ \A s \in Sessions : s # h =>
             job'[s] = IF job[s] = "done" THEN "joined" ELSE job[s]
    BY <2>2, ReapedFacts DEF Reaped, Types, JobStates
  <2>4. Types' /\ Clocks'
    BY <1>1, <2>2, <2>3 DEF Types, Clocks, shown
  <2>5. Flags' /\ Pauses' /\ TrayFollows'
    BY <1>1, <2>2 DEF Flags, Pauses, TrayFollows, pausing, shown
  <2>6. EngineTypes' /\ Future' /\ Generations'
    BY <1>1, <2>1, <2>3 DEF EngineTypes, Future, Generations, engine, shown, Types
  <2>7. Jobs'
    <3> SUFFICES ASSUME NEW s \in Sessions PROVE JobStage(s)'
      BY DEF Jobs
    <3>1. JobStage(s) /\ JobStage(h)
      BY DEF Jobs
    <3> QED
      BY <1>1, <1>2, <2>1, <2>2, <2>3, <3>1 DEF JobStage, Alive, engine
  <2>8. Created'
    BY <1>2, <2>2, <2>3 DEF Created
  <2>9. Accounted' /\ TeardownSafe'
    BY <2>2 DEF Accounted, TeardownSafe
  <2> QED
    BY <2>4, <2>5, <2>6, <2>7, <2>8, <2>9
<1>4. CASE handle = None
  <2>1. app' = "gone" /\ handle' = 0 /\ quitClock' = quitClock /\ job' = Reaped(job)
    BY <1>4 DEF JoinJobs, JoinOwnStop, isRecording
  <2>2. /\ job' \in [Sessions -> JobStates]
        /\ \A s \in Sessions : job'[s] = IF job[s] = "done" THEN "joined" ELSE job[s]
    BY <2>1, ReapedFacts DEF Reaped, Types, JobStates
  <2>3. Types' /\ Clocks'
    BY <1>1, <1>4, <2>1, <2>2 DEF Types, Clocks, shown
  <2>4. Flags' /\ Pauses' /\ TrayFollows'
    BY <1>1, <2>1 DEF Flags, Pauses, TrayFollows, pausing, shown
  <2>5. EngineTypes' /\ Future' /\ Generations'
    BY <1>1, <2>2 DEF EngineTypes, Future, Generations, engine, shown
  <2>6. Jobs'
    <3> SUFFICES ASSUME NEW s \in Sessions PROVE JobStage(s)'
      BY DEF Jobs
    <3>1. JobStage(s)
      BY DEF Jobs
    <3> QED
      BY <1>1, <1>4, <2>1, <2>2, <3>1 DEF JobStage, Alive, engine
  <2>7. Created' /\ Accounted'
    BY <1>2, <2>1, <2>2 DEF Created, Accounted
  <2>8. TeardownSafe'
    BY <1>1, <1>4, <2>2, NobodyLeft DEF TeardownSafe, Alive, engine
  <2> QED
    BY <2>3, <2>4, <2>5, <2>6, <2>7, <2>8
<1>5. JoinOwnStop => handle = None
  BY DEF JoinOwnStop, Clocks
<1> QED
  BY <1>3, <1>4, <1>5

(* A step of one session's stop worker or engine.                          *)
LEMMA SessionStepKeeps ==
  ASSUME ManagerInv, NEW s \in Sessions,
         \/ RunsThrough(s) \/ StopAnswers(s) \/ EngineEnds(s) \/ FileCompletes(s)
  PROVE  ManagerInv'
<1> USE DEF ManagerInv, Control, Work, control
<1>1. Process /\ UNCHANGED <<control, pausing, gen, shown>>
  BY DEF RunsThrough, CallRecordStop, RecordStopReturns, PostResult, SetPromise,
     StopAnswers, WorkerStep, EngineEnds, FileCompletes, jobs
<1>2. Flags' /\ Pauses' /\ TrayFollows'
  BY <1>1 DEF Flags, Pauses, TrayFollows, isRecording, pausing, shown
<1>3. Clocks' /\ Generations' /\ Accounted' /\ TeardownSafe'
  BY <1>1 DEF Clocks, Generations, Accounted, Awaited, TeardownSafe, Process, shown
<1>4. JobStage(s)
  BY DEF Jobs
<1>5. ASSUME job'[s] # "none" \/ job[s] = "none",
             job' \in [Sessions -> JobStates], posted' \subseteq Sessions, EngineTypes',
             job'[s] = "created" => job[s] = "created",
             s > started => phase'[s] = phase[s] /\ verdict'[s] = verdict[s]
                            /\ job'[s] = job[s],
             \A t \in Sessions : t # s =>
               /\ job'[t] = job[t] /\ phase'[t] = phase[t] /\ verdict'[t] = verdict[t]
               /\ t \in posted' <=> t \in posted,
             JobStage(s)'
      PROVE  ManagerInv'
  <2>1. Types'
    BY <1>1, <1>5 DEF Types, shown
  <2>2. Future' /\ Created'
    BY <1>1, <1>5 DEF Future, Created, shown
  <2>3. Jobs'
    <3> SUFFICES ASSUME NEW t \in Sessions, t # s PROVE JobStage(t)'
      BY <1>5 DEF Jobs
    <3>1. JobStage(t)
      BY DEF Jobs
    <3> QED
      BY <1>1, <1>5, <3>1 DEF JobStage, Alive
  <2> QED
    BY <1>2, <1>3, <1>5, <2>1, <2>2, <2>3
<1>6. s > started => job[s] = "none" /\ phase[s] = "idle"
  BY DEF Future
<1>7. CASE CallRecordStop(s)
  <2>1. /\ job[s] = "created" /\ job' = [job EXCEPT ![s] = "stop"]
        /\ phase' = [phase EXCEPT ![s] = "over"]
        /\ UNCHANGED <<posted, verdict, file, indexed>>
    BY <1>7 DEF CallRecordStop, WorkerStep
  <2>2. JobStage(s)'
    BY <1>1, <1>4, <2>1 DEF Types, EngineTypes, JobStage, Alive
  <2> QED
    BY <1>5, <1>6, <2>1, <2>2 DEF Types, EngineTypes, JobStates
<1>8. CASE StopAnswers(s)
  <2>1. PICK v \in {"error", "ok"} : verdict' = [verdict EXCEPT ![s] = v]
    BY <1>8 DEF StopAnswers
  <2>2. /\ job[s] = "stop" /\ job' = [job EXCEPT ![s] = "tidy"]
        /\ UNCHANGED <<posted, phase, file, indexed>>
    BY <1>8 DEF StopAnswers, WorkerStep
  <2>3. JobStage(s)'
    BY <1>1, <1>4, <2>1, <2>2 DEF Types, EngineTypes, JobStage, Alive
  <2> QED
    BY <1>5, <1>6, <2>1, <2>2, <2>3 DEF Types, EngineTypes, JobStates
<1>9. CASE RecordStopReturns(s)
  <2>1. /\ job[s] = "tidy" /\ job' = [job EXCEPT ![s] = "freed"]
        /\ UNCHANGED <<posted, phase, verdict>>
        /\ file' \in {file, [file EXCEPT ![s] = "none"]}
    BY <1>9 DEF RecordStopReturns, WorkerStep
  <2>2. EngineTypes'
    <3>1. indexed' \in {indexed, [indexed EXCEPT ![s] = TRUE]}
      BY <1>9 DEF RecordStopReturns
    <3>2. indexed' \in [Sessions -> BOOLEAN]
      BY <3>1 DEF EngineTypes
    <3> QED
      BY <2>1, <3>2 DEF EngineTypes
  <2>3. JobStage(s)'
    BY <1>1, <1>4, <2>1 DEF Types, EngineTypes, JobStage, Alive
  <2> QED
    BY <1>5, <1>6, <2>1, <2>2, <2>3 DEF Types, JobStates
<1>10. CASE PostResult(s) \/ SetPromise(s)
  <2>1. /\ \/ job[s] = "freed" /\ job' = [job EXCEPT ![s] = "posted"]
              /\ posted' = IF gen[s] # 0 THEN posted \cup {s} ELSE posted
           \/ job[s] = "posted" /\ job' = [job EXCEPT ![s] = "done"]
              /\ posted' = posted
        /\ UNCHANGED engine
    BY <1>10 DEF PostResult, SetPromise, WorkerStep
  <2>2. JobStage(s)'
    BY <1>1, <1>4, <2>1 DEF Types, EngineTypes, JobStage, Alive, engine
  <2>3. /\ posted' \subseteq Sessions
        /\ \A t \in Sessions : t # s => (t \in posted' <=> t \in posted)
    BY <2>1 DEF Types
  <2>4. job[s] # "none" /\ job' \in [Sessions -> JobStates] /\ job'[s] \notin {"none", "created"}
        /\ \A t \in Sessions : t # s => job'[t] = job[t]
    BY <2>1 DEF Types, JobStates
  <2>5. EngineTypes' /\ UNCHANGED <<phase, verdict>>
    BY <2>1 DEF EngineTypes, engine
  <2> QED
    BY <1>5, <1>6, <2>2, <2>3, <2>4, <2>5
<1>11. CASE EngineEnds(s) \/ FileCompletes(s)
  <2>1. /\ UNCHANGED <<jobs, verdict, indexed>>
        /\ \/ phase[s] \in {"recording", "paused"} /\ phase' = [phase EXCEPT ![s] = "over"]
              /\ file' = file
           \/ phase' = phase /\ file' = [file EXCEPT ![s] = "complete"]
    BY <1>11 DEF EngineEnds, FileCompletes, Alive
  <2>2. JobStage(s)'
    BY <1>1, <1>4, <2>1 DEF Types, EngineTypes, JobStage, Alive, jobs
  <2> QED
    BY <1>5, <1>6, <2>1, <2>2 DEF Types, EngineTypes, jobs
<1> QED
  BY <1>7, <1>8, <1>9, <1>10, <1>11 DEF RunsThrough

(* Time passes: nothing urgent is left undone, so no clock overruns.       *)
LEMMA TickKeeps ==
  ASSUME ManagerInv, Tick
  PROVE  ManagerInv'
<1> USE DEF ManagerInv, Control, Work
<1>1. /\ Process /\ \A s \in Sessions : job[s] # "created"
      /\ app = "running" => watchdog < StopTimeout
      /\ app \in {"quitting", "finalizing"} => quitClock < QuitDeadline
      /\ watchdog' = IF watchdog = -1 THEN -1 ELSE watchdog + 1
      /\ quitClock' = IF app = "running" THEN 0 ELSE quitClock + 1
      /\ UNCHANGED <<app, started, handle, stopping, stopGen, pausing, gen, job,
                     posted, engine, shown>>
  BY DEF Tick, Prompt, WatchdogDue, QuitOverdue, Types
<1>2. app \in {"running", "quitting", "finalizing"}
  BY <1>1 DEF Process, Types
<1>3. Types' /\ Clocks'
  BY <1>1, <1>2 DEF Types, Clocks, shown
<1>4. Flags' /\ Pauses' /\ TrayFollows'
  BY <1>1 DEF Flags, Pauses, TrayFollows, isRecording, pausing, shown
<1>5. EngineTypes' /\ Future' /\ Jobs' /\ Created' /\ Generations'
  BY <1>1 DEF EngineTypes, Future, Jobs, JobStage, Alive, Created, Generations,
     engine, shown
<1>6. Accounted' /\ TeardownSafe'
  BY <1>1 DEF Accounted, Awaited, TeardownSafe, Alive, engine, shown
<1> QED
  BY <1>3, <1>4, <1>5, <1>6

(* ManagerInv is inductive.                                                *)
LEMMA Inductive ==
  ASSUME ManagerInv, [Next]_vars
  PROVE  ManagerInv'
<1>1. CASE UNCHANGED vars
  <2>1. Pauses' /\ autoPaused' \in BOOLEAN /\ userPaused' \in BOOLEAN
    BY <1>1 DEF ManagerInv, Control, Pauses, Flags, vars, pausing
  <2> QED
    BY <1>1, <2>1, OnlyPauseFlags DEF vars, pausing
<1>2. CASE UserActs
  BY <1>2, StartKeeps, PausingKeeps, StopKeeps, QuitKeeps DEF UserActs, UserStops
<1>3. CASE GuiReacts
  BY <1>3, StopKeeps, FinishKeeps, TimeoutKeeps DEF GuiReacts, onTick
<1>4. CASE DtorStep
  BY <1>4, JoinKeeps, QuitKeeps DEF DtorStep
<1>5. CASE \E s \in Sessions : RunsThrough(s) \/ StopAnswers(s) \/ EngineEnds(s)
                               \/ FileCompletes(s)
  BY <1>5, SessionStepKeeps
<1>6. CASE Tick
  BY <1>6, TickKeeps
<1> QED
  BY <1>1, <1>2, <1>3, <1>4, <1>5, <1>6 DEF Next

LEMMA Invariance == Spec => []ManagerInv
  BY Initially, Inductive, PTL DEF Spec

-----------------------------------------------------------------------------
(* What the invariant says of each property.                               *)

(* Types, and the watchdog that belongs to the finalization.               *)
THEOREM TypesKept == Spec => []TypeOK
<1>1. ManagerInv => TypeOK
  <2> SUFFICES ASSUME ManagerInv PROVE TypeOK
    OBVIOUS
  <2> USE DEF ManagerInv, Control, Work
  <2>1. \A s \in Sessions : Len(outcome[s]) <= 1
    <3>1. \A s \in Sessions : outcome[s] \in Finals
      BY DEF Types
    <3> QED
      BY <3>1, FirstSignal
  <2>2. stopGen \in 0..(2 * MaxSessions)
    BY DEF Types, Clocks
  <2>3. gen \in [Sessions -> 0..stopGen]
    <3>1. \A s \in Sessions : gen[s] \in Nat /\ gen[s] <= stopGen
      BY DEF Types, Jobs, JobStage
    <3> QED
      BY <3>1 DEF Types
  <2>4. Flags /\ EngineTypes /\ (Gui => (watchdog # -1 <=> stopping))
    BY DEF Clocks
  <2> QED
    BY <2>1, <2>2, <2>3, <2>4 DEF TypeOK, Types, Flags, EngineTypes
<1> QED
  BY <1>1, Invariance, PTL

(* The tray shows a recording or a finalization exactly while there is     *)
(* one, whatever fails.                                                    *)
THEOREM TrayAlwaysFollows == Spec => []TrayFollows
<1>1. ManagerInv => TrayFollows
  BY DEF ManagerInv, Control
<1> QED
  BY <1>1, Invariance, PTL

(* At most one session captures.                                           *)
LEMMA OneCaptures ==
  ASSUME ManagerInv
  PROVE  Cardinality({s \in Sessions : Alive(s)}) <= 1
<1> DEFINE A == {s \in Sessions : Alive(s)}
<1>1. \A s, t \in A : s = t
  BY DEF ManagerInv, Work, Jobs, JobStage, Created
<1>2. CASE A = {}
  BY <1>2, FS_EmptySet
<1>3. CASE A # {}
  <2>1. PICK s \in A : A = {s}
    BY <1>1, <1>3
  <2> QED
    BY <2>1, FS_Singleton
<1> QED
  BY <1>2, <1>3

(* Every session gets exactly one final signal, no two capture at once,    *)
(* and the destructor returns only when no worker is left.                 *)
THEOREM EverySessionEndsOnce == Spec => []SessionsEndOnce
<1>1. ManagerInv => SessionsEndOnce
  <2> SUFFICES ASSUME ManagerInv PROVE SessionsEndOnce
    OBVIOUS
  <2>1. ASSUME Gui, NEW s \in 1..started
        PROVE  Len(outcome[s]) =
                 IF s = handle \/ (stopping /\ gen[s] = stopGen) THEN 0 ELSE 1
    <3>1. s \in Sessions /\ s <= started /\ outcome[s] \in Finals
      BY DEF ManagerInv, Control, Types
    <3>2. outcome[s] = <<>> <=> s = handle \/ (stopping /\ gen[s] = stopGen)
      BY <2>1, <3>1 DEF ManagerInv, Accounted, Awaited
    <3>3. Len(outcome[s]) = IF outcome[s] = <<>> THEN 0 ELSE 1
      BY <3>1, FirstSignal
    <3> QED
      BY <3>2, <3>3
  <2> QED
    BY <2>1, OneCaptures DEF SessionsEndOnce, SessionAccounted, ManagerInv
<1> QED
  BY <1>1, Invariance, PTL

(* Waking up never resumes a recording that the user had paused.           *)
THEOREM UserPauseKept == Spec => ManualPauseKept
<1>1. ManagerInv /\ [Next]_vars => [SystemWakes /\ userPaused => paused']_vars
  BY DEF ManagerInv, Control, Pauses, SystemWakes
<1> QED
  BY <1>1, Invariance, PTL DEF Spec, ManualPauseKept

-----------------------------------------------------------------------------
(* Each session's engine is used as RecordingLifecycle allows.             *)

(* The mapped variables of a session that an action leaves alone.          *)
EngineKept(s) ==
  /\ phase'[s] = phase[s] /\ verdict'[s] = verdict[s]
  /\ file'[s] = file[s] /\ indexed'[s] = indexed[s]

LEMMA KeptIsStutter ==
  ASSUME NEW s \in Sessions, EngineKept(s)
  PROVE  UNCHANGED Engine(s)!vars
  BY DEF EngineKept, Engine!vars

LEMMA LifecycleStep ==
  ASSUME ManagerInv, Next, NEW s \in Sessions
  PROVE  Engine(s)!Next \/ EngineKept(s)
<1> USE DEF ManagerInv, Control, Work
<1>1. CASE StartRecording
  <2>1. /\ started + 1 \in Sessions
        /\ phase' = [phase EXCEPT ![started + 1] = "recording"]
        /\ file' = [file EXCEPT ![started + 1] = "empty"]
        /\ UNCHANGED <<verdict, indexed>>
    BY <1>1 DEF StartRecording, MayStart, Types
  <2>2. CASE s = started + 1
    <3>1. Engine(s)!Begin
      BY <2>1, <2>2 DEF Engine!Begin, Future, EngineTypes, Types
    <3> QED
      BY <3>1 DEF Engine!Next
  <2>3. CASE s # started + 1
    BY <2>1, <2>3 DEF EngineKept, EngineTypes
  <2> QED
    BY <2>2, <2>3
<1>2. CASE StartFails
  <2>1. /\ started + 1 \in Sessions
        /\ phase' = [phase EXCEPT ![started + 1] = "over"]
        /\ verdict' = [verdict EXCEPT ![started + 1] = "error"]
        /\ UNCHANGED <<file, indexed>>
    BY <1>2 DEF StartFails, MayStart, Types
  <2>2. CASE s = started + 1
    <3>1. Engine(s)!BeginFails
      BY <2>1, <2>2 DEF Engine!BeginFails, Future, EngineTypes, Types
    <3> QED
      BY <3>1 DEF Engine!Next
  <2>3. CASE s # started + 1
    BY <2>1, <2>3 DEF EngineKept, EngineTypes
  <2> QED
    BY <2>2, <2>3
<1>3. CASE UserPauses \/ UserResumes \/ SystemSleeps \/ SystemWakes
  <2>1. /\ UNCHANGED <<verdict, file, indexed>>
        /\ \/ phase' = phase
           \/ Alive(handle) /\ phase' = [phase EXCEPT ![handle] = "paused"]
           \/ Alive(handle) /\ phase' = [phase EXCEPT ![handle] = "recording"]
    BY <1>3 DEF UserPauses, UserResumes, SystemSleeps, SystemWakes,
       pauseRecording, resumeRecording
  <2>2. CASE EngineKept(s)
    BY <2>2
  <2>3. CASE ~EngineKept(s)
    <3>1. \/ phase[s] = "recording" /\ phase'[s] = "paused"
          \/ phase[s] = "paused" /\ phase'[s] = "recording"
      BY <2>1, <2>3 DEF EngineKept, EngineTypes, Alive
    <3>2. Engine(s)!Pause \/ Engine(s)!Resume
      BY <2>1, <3>1 DEF Engine!Pause, Engine!Resume
    <3> QED
      BY <3>2 DEF Engine!Next
  <2> QED
    BY <2>2, <2>3
<1>4. CASE stopRecording \/ finishStop \/ onStopTimeout \/ Quit \/ DtorStep \/ Tick
  <2>1. UNCHANGED engine
    BY <1>4 DEF stopRecording, finishStop, onStopTimeout, Quit, DtorStep, JoinJobs,
       JoinOwnStop, Abort, Tick
  <2> QED
    BY <2>1 DEF EngineKept, engine
<1>5. ASSUME NEW t \in Sessions, RunsThrough(t) \/ StopAnswers(t) \/ EngineEnds(t)
                               \/ FileCompletes(t)
      PROVE  Engine(s)!Next \/ EngineKept(s)
  <2>1. JobStage(s)
    BY DEF Jobs
  <2>2. CASE s # t
    BY <1>5, <2>2 DEF RunsThrough, CallRecordStop, RecordStopReturns, PostResult,
       SetPromise, StopAnswers, EngineEnds, FileCompletes, EngineKept, EngineTypes, engine
  <2>3. CASE s = t /\ (CallRecordStop(t) \/ EngineEnds(t))
    <3>1. /\ phase[s] \in {"recording", "paused", "over"} /\ phase'[s] = "over"
          /\ UNCHANGED <<verdict, file, indexed>>
      BY <2>1, <2>3 DEF CallRecordStop, WorkerStep, EngineEnds, Alive, EngineTypes, JobStage
    <3>2. Engine(s)!Halt \/ EngineKept(s)
      BY <3>1 DEF Engine!Halt, EngineKept
    <3> QED
      BY <3>2 DEF Engine!Next
  <2>4. CASE s = t /\ StopAnswers(t)
    <3>1. /\ phase[s] = "over" /\ verdict[s] = "none"
          /\ verdict'[s] = "error" \/ (verdict'[s] = "ok" /\ file[s] = "complete")
          /\ UNCHANGED <<phase, file, indexed>>
      BY <2>1, <2>4 DEF StopAnswers, WorkerStep, EngineTypes, JobStage
    <3>2. Engine(s)!Return
      BY <3>1 DEF Engine!Return
    <3> QED
      BY <3>2 DEF Engine!Next
  <2>5. CASE s = t /\ RecordStopReturns(t)
    <3>1. UNCHANGED <<phase, verdict>>
      BY <2>5 DEF RecordStopReturns
    <3>2. CASE verdict[s] = "error" /\ file[s] = "empty"
      <4>1. file'[s] = "none" /\ indexed' = indexed
        BY <2>5, <3>2 DEF RecordStopReturns, EngineTypes
      <4>2. Engine(s)!Discard
        BY <3>1, <3>2, <4>1 DEF Engine!Discard
      <4> QED
        BY <4>2 DEF Engine!Next
    <3>3. CASE ~(verdict[s] = "error" /\ file[s] = "empty")
      <4>1. file' = file
        BY <2>5, <3>3 DEF RecordStopReturns
      <4>2. CASE indexed' = indexed
        BY <3>1, <4>1, <4>2 DEF EngineKept
      <4>3. CASE indexed' # indexed
        <5>1. verdict[s] = "ok" /\ indexed' = [indexed EXCEPT ![s] = TRUE]
          BY <2>5, <4>3 DEF RecordStopReturns
        <5>2. indexed'[s] = TRUE
          BY <5>1 DEF EngineTypes
        <5>3. Engine(s)!Index
          BY <3>1, <4>1, <5>1, <5>2 DEF Engine!Index
        <5> QED
          BY <5>3 DEF Engine!Next
      <4> QED
        BY <4>2, <4>3
    <3> QED
      BY <3>2, <3>3
  <2>6. CASE s = t /\ FileCompletes(t)
    <3>1. /\ verdict[s] = "none" /\ file[s] = "empty" /\ file'[s] = "complete"
          /\ UNCHANGED <<phase, verdict, indexed>>
      BY <2>6 DEF FileCompletes, EngineTypes
    <3>2. Engine(s)!Grow
      BY <3>1 DEF Engine!Grow
    <3> QED
      BY <3>2 DEF Engine!Next
  <2>7. CASE PostResult(t) \/ SetPromise(t)
    BY <2>7 DEF PostResult, SetPromise, EngineKept, engine
  <2> QED
    BY <1>5, <2>2, <2>3, <2>4, <2>5, <2>6, <2>7 DEF RunsThrough
<1> QED
  BY <1>1, <1>2, <1>3, <1>4, <1>5 DEF Next, UserActs, GuiReacts, UserStops, onTick

(* The manager keeps the contract of every session's engine: begun once,   *)
(* stopped once, tidied once.                                              *)
THEOREM ManagerKeepsContract == Spec => EngineContract
<1>1. ManagerInv /\ [Next]_vars =>
        [\A s \in Sessions : Engine(s)!Next \/ UNCHANGED Engine(s)!vars]_vars
  <2> SUFFICES ASSUME ManagerInv, Next, NEW s \in Sessions
               PROVE  Engine(s)!Next \/ UNCHANGED Engine(s)!vars
    OBVIOUS
  <2> QED
    BY LifecycleStep, KeptIsStutter
<1> QED
  BY <1>1, Invariance, PTL DEF Spec, EngineContract
=============================================================================

--------------------------- MODULE OverlaySession ---------------------------
(***************************************************************************)
(* One capture session of the overlay: qt/src/ui/overlay/OverlayWindow.cpp *)
(* with the entry points of qt/src/app/main.cpp.  The overlay is one       *)
(* window, used again for every session: it is activated, grabs the screen *)
(* on a worker, shows the frame, and ends by a commit, a cancel, a changed *)
(* screen layout, a wake from sleep or a failed grab.  Everything runs on  *)
(* the GUI thread but the grabs.                                           *)
(***************************************************************************)
EXTENDS Integers, Sequences, FiniteSets

CONSTANTS
  MaxSeq,     \* bound: sessions and dismissals (m_captureSeq)
  MaxPosted   \* bound: events waiting in the GUI's queue

ASSUME SessionAssumption == MaxSeq \in Nat /\ MaxPosted \in Nat

VARIABLES
  mode, purpose,   \* m_mode, m_purpose
  visible,         \* isVisible()
  hasRegion,       \* m_hasRegion
  drawing,         \* m_drawing
  work,            \* something is drawn or being typed
  inFlight,        \* m_captureInFlight
  captureSeq,      \* m_captureSeq
  screenshot,      \* m_screenshot
  canvas,          \* the screenshot the annotation canvas draws on
  crosshair,       \* m_selectCursorActive
  remember, last,  \* m_rememberRegion; a region is remembered
  recording,       \* RecordingManager::isBusy()
  posted,          \* the GUI's queue: activations, finished grabs
  grabs,           \* grabs on worker threads
  watchdogs,       \* activations whose watchdog has not fired
  session,         \* history: the captureSeq of the session, 0: none
  ended            \* history: what took the last session off the screen

window  == <<mode, purpose, visible, hasRegion, drawing, work, crosshair>>
frames  == <<inFlight, captureSeq, screenshot, canvas, session, ended>>
outside == <<remember, recording>>
loop    == <<posted, grabs, watchdogs>>
vars    == <<window, frames, last, outside, loop>>

NoShot == [seq |-> 0, clean |-> TRUE]
Shots  == [seq : Nat, clean : BOOLEAN]   \* clean: without the overlay in it
Entries == {"screenshot", "fullscreen", "record"}

Init ==
  /\ mode = "Select" /\ purpose = "Screenshot"
  /\ visible = FALSE /\ hasRegion = FALSE /\ drawing = FALSE /\ work = FALSE
  /\ inFlight = FALSE /\ captureSeq = 0 /\ session = 0 /\ ended = "not"
  /\ screenshot = NoShot /\ canvas = NoShot
  /\ crosshair = FALSE
  /\ remember \in BOOLEAN /\ last \in BOOLEAN
  /\ recording = FALSE
  /\ posted = <<>> /\ grabs = {} /\ watchdogs = {}

-----------------------------------------------------------------------------

isBusy ==
  \/ inFlight
  \/ visible /\ (drawing \/ hasRegion \/ mode # "Select")

WantCrosshair == visible /\ mode = "Select" /\ ~hasRegion
syncSelectCursor == crosshair' = WantCrosshair'

(* Mutant: a dismissal does not supersede the grab in flight.              *)
hideOverlayOnly ==
  /\ captureSeq' = captureSeq
  /\ inFlight' = FALSE /\ visible' = FALSE
  /\ syncSelectCursor

(* Mutant: the crosshair is not given back.                                *)
hideOverlayUnsynced ==
  /\ captureSeq' = captureSeq + 1
  /\ inFlight' = FALSE /\ visible' = FALSE
  /\ UNCHANGED crosshair

hideOverlay ==
  /\ captureSeq' = captureSeq + 1
  /\ inFlight' = FALSE /\ visible' = FALSE
  /\ syncSelectCursor

(* Common to every way a session ends.                                     *)
EndSession(by) ==
  /\ mode' = "Select" /\ hasRegion' = FALSE /\ drawing' = FALSE
  /\ hideOverlay
  /\ session' = 0 /\ ended' = by
  /\ UNCHANGED <<purpose, canvas, remember, grabs>>

cancelSession(by) ==
  /\ EndSession(by)
  /\ work' = FALSE
  /\ UNCHANGED <<screenshot, last, recording>>

handleCaptureFailure ==
  /\ EndSession("failure")
  /\ screenshot' = NoShot
  /\ UNCHANGED <<work, last, recording>>

-----------------------------------------------------------------------------
(* Activation.                                                             *)

activateInternal ==
  /\ visible' = FALSE /\ drawing' = FALSE /\ work' = FALSE
  /\ screenshot' = NoShot
  /\ inFlight' = TRUE
  /\ captureSeq' = captureSeq + 1 /\ session' = captureSeq' /\ ended' = "not"
  /\ grabs' = grabs \cup {[seq |-> captureSeq', stage |-> "running", clean |-> TRUE]}
  /\ watchdogs' = watchdogs \cup {captureSeq'}
  /\ syncSelectCursor
  /\ UNCHANGED <<last, outside>>

(* A remembered region is taken up again before the frame has come, unless *)
(* it shrank too much when it was clamped to this display.                 *)
RegionAgain == remember /\ last

enterAnnotateMode ==
  /\ mode' = "Annotate" /\ hasRegion' = TRUE
  /\ canvas' = screenshot'

enterRecordSelectMode == mode' = "RecordSelect" /\ hasRegion' = TRUE /\ UNCHANGED canvas
StartSelecting == mode' = "Select" /\ hasRegion' = FALSE /\ UNCHANGED canvas

Activate(entry) ==
  /\ activateInternal
  /\ CASE entry = "screenshot" ->
            /\ purpose' = "Screenshot"
            /\ StartSelecting \/ (RegionAgain /\ enterAnnotateMode)
       [] entry = "fullscreen" ->
            purpose' = "Screenshot" /\ enterAnnotateMode
       [] entry = "record" ->
            /\ purpose' = "Record"
            /\ StartSelecting \/ (RegionAgain /\ enterRecordSelectMode)

(* Mutant: an entry does not ask after a running recording.                *)
MayEnterAny(entry) == ~isBusy

MayEnter(entry) == ~isBusy /\ (entry = "record" => ~recording)
RoomFor == captureSeq + Len(posted) < MaxSeq

(* The tray menu activates at once; a hotkey looks now and activates later.*)
TrayAction(entry) ==
  /\ RoomFor
  /\ MayEnter(entry)
  /\ Activate(entry)
  /\ UNCHANGED posted

(* Mutant: the hotkeys ask only whether a grab is pending.                 *)
hotkeyHandlerInFlight(entry) ==
  /\ RoomFor /\ Len(posted) < MaxPosted
  /\ ~inFlight /\ (entry = "record" => ~recording)
  /\ visible' = FALSE /\ ended' = "hotkey"
  /\ posted' = Append(posted, [kind |-> "activate", entry |-> entry])
  /\ UNCHANGED <<mode, purpose, hasRegion, drawing, work, crosshair,
                 inFlight, captureSeq, screenshot, canvas, session, last, outside, grabs, watchdogs>>

hotkeyHandler(entry) ==
  /\ RoomFor /\ Len(posted) < MaxPosted
  /\ MayEnter(entry)
  /\ visible' = FALSE /\ ended' = "hotkey"
  /\ posted' = Append(posted, [kind |-> "activate", entry |-> entry])
  /\ UNCHANGED <<mode, purpose, hasRegion, drawing, work, crosshair,
                 inFlight, captureSeq, screenshot, canvas, session, last, outside, grabs, watchdogs>>

(* A hotkey or a tray action that may not enter does nothing.              *)
Ignored(entry) == (~MayEnter(entry) \/ ~RoomFor) /\ UNCHANGED vars

-----------------------------------------------------------------------------
(* The grab and its end.                                                   *)

Grab(g) ==
  /\ g.stage = "running"
  /\ grabs' = (grabs \ {g}) \cup {[g EXCEPT !.stage = "done", !.clean = ~visible]}
  /\ UNCHANGED <<window, frames, last, outside, posted, watchdogs>>

GrabReturns(g) ==
  /\ Len(posted) < MaxPosted
  /\ \E ok \in {FALSE, g.stage = "done"} :
       posted' = Append(posted, [kind |-> "finished", ok |-> ok,
                                 shot |-> [seq |-> g.seq, clean |-> g.clean]])
  /\ grabs' = grabs \ {g}
  /\ UNCHANGED <<window, frames, last, outside, watchdogs>>

presentOverlay == visible' = TRUE /\ syncSelectCursor

Finished(ok, shot) ==
  IF shot.seq # captureSeq
  THEN UNCHANGED <<window, frames, last, outside, grabs, watchdogs>>
  ELSE IF ~ok
  THEN handleCaptureFailure /\ UNCHANGED watchdogs
  ELSE /\ inFlight' = FALSE
       /\ screenshot' = shot
       /\ canvas' = IF mode = "Annotate" THEN shot ELSE canvas
       /\ UNCHANGED <<mode, purpose, hasRegion, drawing, work, captureSeq,
                      session, ended, last, outside, grabs, watchdogs>>
       /\ presentOverlay

(* The event loop runs what was posted, in order.                          *)
RunPosted ==
  /\ posted # <<>> /\ posted' = Tail(posted)
  /\ LET e == Head(posted)
     IN IF e.kind = "activate" THEN Activate(e.entry) ELSE Finished(e.ok, e.shot)

(* Mutant: the watchdog only logs.                                         *)
WatchdogLogs(s) ==
  /\ s \in watchdogs /\ watchdogs' = watchdogs \ {s}
  /\ UNCHANGED <<window, frames, last, outside, posted, grabs>>

(* Eight seconds after the activation.                                     *)
Watchdog(s) ==
  /\ s \in watchdogs /\ watchdogs' = watchdogs \ {s}
  /\ UNCHANGED posted
  /\ IF s = captureSeq /\ inFlight
     THEN handleCaptureFailure
     ELSE UNCHANGED <<window, frames, last, outside, grabs>>

-----------------------------------------------------------------------------
(* The user, at the overlay.                                               *)

Draws(from) ==
  /\ visible /\ from
  /\ drawing' = TRUE /\ mode' = "Select" /\ hasRegion' = FALSE
  /\ UNCHANGED <<purpose, visible, work, frames, last, outside, loop>>
  /\ syncSelectCursor

PressInSelect == Draws(mode = "Select" /\ ~drawing)
PressBesideRecordRegion == Draws(mode = "RecordSelect")

Release ==
  /\ visible /\ drawing /\ drawing' = FALSE
  /\ UNCHANGED <<purpose, visible, work, inFlight, captureSeq, screenshot, session,
                 ended, last, outside, loop>>
  /\ \/ UNCHANGED <<mode, hasRegion, canvas>>    \* too small a region
     \/ purpose = "Record" /\ enterRecordSelectMode
     \/ purpose = "Screenshot" /\ enterAnnotateMode
  /\ syncSelectCursor

Edit ==
  /\ visible /\ mode = "Annotate"
  /\ work' \in BOOLEAN
  /\ UNCHANGED <<mode, purpose, visible, hasRegion, drawing, crosshair, frames,
                 last, outside, loop>>

StrayClick ==
  /\ visible /\ mode = "Annotate" /\ ~work
  /\ cancelSession("stray")
  /\ UNCHANGED <<posted, watchdogs>>

Cancel ==
  /\ visible
  /\ cancelSession("cancel")
  /\ UNCHANGED <<posted, watchdogs>>

rememberCurrentRegion == last' = (last \/ remember)

(* Save or copy; the work stays in the hidden canvas till the next session.*)
Commit ==
  /\ visible /\ mode = "Annotate"
  /\ ~inFlight /\ screenshot # NoShot
  /\ rememberCurrentRegion
  /\ EndSession("commit")
  /\ UNCHANGED <<work, screenshot, recording, posted, watchdogs>>

emitRecord(region) ==
  /\ visible /\ mode = "RecordSelect"
  /\ IF region THEN rememberCurrentRegion ELSE UNCHANGED last
  /\ EndSession("commit")
  /\ recording' \in BOOLEAN    \* startRecording may fail
  /\ UNCHANGED <<work, screenshot, posted, watchdogs>>

-----------------------------------------------------------------------------
(* The surroundings.                                                       *)

onScreenConfigChanged ==
  /\ visible \/ inFlight
  /\ cancelSession("layout")
  /\ UNCHANGED <<posted, watchdogs>>

handleSystemWake ==
  /\ captureSeq < MaxSeq
  /\ EndSession("wake")
  /\ screenshot' = NoShot
  /\ UNCHANGED <<work, last, recording, posted, watchdogs>>

RecordingEnds ==
  /\ recording /\ recording' = FALSE
  /\ UNCHANGED <<window, frames, last, remember, loop>>

UserStep ==
  \/ PressInSelect \/ PressBesideRecordRegion \/ Release \/ Edit
  \/ StrayClick \/ Cancel \/ Commit
  \/ \E region \in BOOLEAN : emitRecord(region)

Next ==
  \/ \E entry \in Entries : TrayAction(entry) \/ hotkeyHandler(entry) \/ Ignored(entry)
  \/ \E g \in grabs : Grab(g) \/ GrabReturns(g)
  \/ RunPosted
  \/ \E s \in watchdogs : Watchdog(s)
  \/ UserStep
  \/ onScreenConfigChanged \/ handleSystemWake \/ RecordingEnds

(* The GUI's event loop turns; grabs and users promise nothing.            *)
EventLoop ==
  /\ WF_vars(RunPosted)
  /\ \A s \in 1..(2 * MaxSeq + 2) : WF_vars(Watchdog(s))

Spec == Init /\ [][Next]_vars
LoopSpec == Spec /\ EventLoop
-----------------------------------------------------------------------------
(* Properties.                                                             *)

(* Types; captureSeq only grows, and no grab is ahead of it.               *)
TypeOK ==
  /\ mode \in {"Select", "Annotate", "RecordSelect"}
  /\ purpose \in {"Screenshot", "Record"}
  /\ {visible, hasRegion, drawing, work, inFlight, crosshair} \subseteq BOOLEAN
  /\ {remember, last, recording} \subseteq BOOLEAN
  /\ captureSeq \in Nat /\ session \in 0..captureSeq
  /\ screenshot \in Shots /\ canvas \in Shots
  /\ \A g \in grabs : g.seq \in 1..captureSeq
  /\ watchdogs \subseteq 1..captureSeq
  /\ ended \in {"not", "commit", "cancel", "stray", "failure", "layout", "wake", "hotkey"}

(* What is on screen is the frame this very session grabbed, without the   *)
(* overlay in it, and the canvas draws on the same frame: no late grab of  *)
(* a superseded or dismissed session ever shows.                           *)
ShowsOwnFrame ==
  visible =>
    /\ session # 0 /\ screenshot.seq = session /\ screenshot.clean
    /\ mode = "Annotate" => canvas = screenshot

(* Drawn work leaves the screen only when the user saves, copies or        *)
(* cancels, the screens change or the Mac wakes: never by a hotkey, the    *)
(* tray, a stray click, a late grab or a watchdog.                         *)
WorkSurvives ==
  [][visible /\ work /\ ~visible'
       => ended' \in {"commit", "cancel", "layout", "wake"}]_vars

(* The region picker of a recording is never open, nor being opened, while *)
(* another recording runs.                                                 *)
PickerOnlyWhenIdle == recording => ~(purpose = "Record" /\ (visible \/ inFlight))

(* The override crosshair is held exactly while a region is to be drawn,   *)
(* whatever order the transitions came in (but between a hotkey and the    *)
(* activation it posted).                                                  *)
CursorFollows ==
  (\A i \in DOMAIN posted : posted[i].kind # "activate") => crosshair = WantCrosshair

(* The session's mode agrees with the recording and with the cursor.       *)
ModeConsistent == PickerOnlyWhenIdle /\ CursorFollows

(* The hotkey gate always opens again: a pending capture is over at some   *)
(* time even if its worker hangs.                                          *)
GateRecovers == inFlight ~> ~inFlight
=============================================================================

---------------------------- MODULE StreamCapture ----------------------------
(***************************************************************************)
(* The source of a recording's frames on macOS: a ScreenCaptureKit stream  *)
(* that the recording worker starts, polls and stops, the mailbox between  *)
(* them, and the fallback to one screenshot per frame                      *)
(* (crates/snapforge-capture/src/capture/macos/stream.rs and the           *)
(* RecordingSource of capture/macos.rs).                                   *)
(*                                                                         *)
(* Four parties take steps: the worker; the serial queue on which frames   *)
(* are delivered; the thread on which the delegate hears that the stream   *)
(* died; and ScreenCaptureKit itself, which may answer a request late or   *)
(* never.  A deadline is a flag that time may raise at any moment.         *)
(***************************************************************************)
EXTENDS Integers

CONSTANT MaxFrames   \* bound: frames ScreenCaptureKit delivers

ASSUME FramesAssumption == MaxFrames \in Nat \ {0}

VARIABLES
  pc,         \* the worker
  after,      \* where it goes when stop_inner is done
  overdue,    \* the deadline of the call it is in has passed
  running,    \* StreamCapture::running: a stopCapture is owed
  lastSeen,   \* StreamCapture::last_seen
  result,     \* what the last poll answered
  shown,      \* history: the arrival number of the frame the worker holds
  startReq,   \* the startCapture request and its completion
  stopReq,    \* the stopCapture request and its completion
  streaming,  \* ScreenCaptureKit captures the screen for us
  wedged,     \* ScreenCaptureKit has stopped answering requests
  online,     \* CGDisplayIsOnline
  delegate,   \* stream:didStopWithError: on its thread
  failed,     \* Shared::failure is set
  qpc,        \* the delivery queue
  arrived,    \* complete frames delivered so far
  hand,       \* the buffer the queue took has been allocated before
  latest,     \* FrameSlot::latest, by arrival number (0 = None)
  seq,        \* FrameSlot::seq
  spare,      \* FrameSlot::spare holds a buffer
  allocs      \* history: frame buffers allocated

workerVars == <<pc, after, overdue, running, lastSeen, result, shown>>
kit    == <<startReq, stopReq, streaming, wedged, online>>
death  == <<delegate, failed>>
slot   == <<latest, seq, spare, hand>>
queue  == <<qpc, arrived, slot, allocs>>
vars   == <<workerVars, kit, death, queue>>

(* Inside wait_frame, and inside any call that has a deadline.             *)
Waiting  == {"first", "checkFailure", "aboutToWait", "waiting", "woken"}
Blocking == Waiting \cup {"starting", "stopping"}
WorkerPcs == Blocking \cup {"new", "poll", "read", "idle", "fallback",
                            "screenshots", "gone"}
Requests == {"none", "pending", "ok", "error"}

Init ==
  /\ pc = "new" /\ after = "gone" /\ overdue = FALSE /\ running = FALSE
  /\ lastSeen = 0 /\ result = "none" /\ shown = 0
  /\ startReq = "none" /\ stopReq = "none" /\ streaming = FALSE
  /\ wedged = FALSE /\ online = TRUE
  /\ delegate = "idle" /\ failed = FALSE
  /\ qpc = "idle" /\ arrived = 0 /\ hand = FALSE
  /\ latest = 0 /\ seq = 0 /\ spare = FALSE /\ allocs = 0

(* FrameSlot::newer_than(last_seen).                                       *)
Newer == seq > lastSeen

(* Mutant: the slot is unlocked between the look at it and the sleep.      *)
HoldsNoSlot == FALSE

(* The worker owns the slot's mutex from its look at the slot in           *)
(* wait_frame until the condition variable releases it.                    *)
HoldsSlot == pc \in {"checkFailure", "aboutToWait"}

-----------------------------------------------------------------------------
(* Starting and stopping.                                                  *)

(* The display, its filter or the output cannot be set up: no request was  *)
(* made, so nothing is owed.  NoDisplay is final, anything else falls back.*)
StartFailsEarly ==
  /\ pc = "new"
  /\ pc' \in {"fallback", "gone"}
  /\ UNCHANGED <<after, overdue, running, lastSeen, result, shown, kit, death,
                 queue>>

StartCapture ==
  /\ pc = "new"
  /\ pc' = "starting" /\ overdue' = FALSE
  /\ running' = TRUE
  /\ startReq' = "pending"
  /\ UNCHANGED <<after, lastSeen, result, shown, stopReq, streaming, wedged,
                 online, death, queue>>

Started ==
  /\ pc = "starting" /\ startReq = "ok"
  /\ pc' = "first" /\ overdue' = FALSE
  /\ UNCHANGED <<after, running, lastSeen, result, shown, kit, death, queue>>

(* Mutant: a stop is owed only once the start has succeeded.               *)
StopInnerIfStarted(next) ==
  /\ running' = FALSE
  /\ after' = next
  /\ overdue' = FALSE
  /\ IF running /\ startReq = "ok"
     THEN pc' = "stopping" /\ stopReq' = "pending"
     ELSE pc' = next /\ UNCHANGED stopReq

(* stop_inner, on the way to `next`: it takes `running`, so that neither a *)
(* failed start nor the drop after it asks a second time.                  *)
StopInner(next) ==
  /\ running' = FALSE
  /\ after' = next
  /\ overdue' = FALSE
  /\ IF running
     THEN pc' = "stopping" /\ stopReq' = "pending"
     ELSE pc' = next /\ UNCHANGED stopReq

(* A refused or overdue start is stopped all the same: it may still        *)
(* complete later.                                                         *)
StartFails ==
  /\ pc = "starting"
  /\ startReq = "error" \/ (startReq = "pending" /\ overdue)
  /\ StopInner("fallback")
  /\ UNCHANGED <<lastSeen, result, shown, startReq, streaming, wedged, online,
                 death, queue>>

StopEnds ==
  /\ pc = "stopping"
  /\ stopReq \in {"ok", "error"} \/ overdue
  /\ pc' = after
  /\ UNCHANGED <<after, overdue, running, lastSeen, result, shown, kit, death,
                 queue>>

(* The worker drops its source: stop_inner on every path.                  *)
DropSource ==
  /\ pc \in {"idle", "screenshots"}
  /\ StopInner("gone")
  /\ UNCHANGED <<lastSeen, result, shown, startReq, streaming, wedged, online,
                 death, queue>>

(* start_with_fallback: the screenshot context may fail as well.           *)
Fallback ==
  /\ pc = "fallback"
  /\ pc' \in {"screenshots", "gone"}
  /\ UNCHANGED <<after, overdue, running, lastSeen, result, shown, kit, death,
                 queue>>

(* next_frame of the fallback: a screenshot on the spot, bounded by its    *)
(* own timeout.                                                            *)
Screenshot ==
  /\ pc = "screenshots"
  /\ result' \in IF online THEN {"frame", "dead"} ELSE {"noDisplay"}
  /\ UNCHANGED <<pc, after, overdue, running, lastSeen, shown, kit, death,
                 queue>>

-----------------------------------------------------------------------------
(* wait_frame: the wait for the recording's first frame.                   *)

CheckSlot ==
  /\ pc \in {"first", "woken"}
  /\ pc' = IF Newer THEN "poll" ELSE "checkFailure"
  /\ UNCHANGED <<after, overdue, running, lastSeen, result, shown, kit, death,
                 queue>>

CheckFailure ==
  /\ pc = "checkFailure"
  /\ pc' = IF failed THEN "poll" ELSE "aboutToWait"
  /\ UNCHANGED <<after, overdue, running, lastSeen, result, shown, kit, death,
                 queue>>

(* Past the deadline it gives up; before it, the condition variable        *)
(* releases the slot and sleeps in one step.                               *)
WaitOrGiveUp ==
  /\ pc = "aboutToWait"
  /\ pc' = IF overdue THEN "poll" ELSE "waiting"
  /\ UNCHANGED <<after, overdue, running, lastSeen, result, shown, kit, death,
                 queue>>

(* Mutant: a wait without a deadline.                                      *)
WaitOnly == FALSE

WaitTimesOut ==
  /\ pc = "waiting" /\ overdue
  /\ pc' = "woken"
  /\ UNCHANGED <<after, overdue, running, lastSeen, result, shown, kit, death,
                 queue>>

SpuriousWake ==
  /\ pc = "waiting"
  /\ pc' = "woken"
  /\ UNCHANGED <<after, overdue, running, lastSeen, result, shown, kit, death,
                 queue>>

(* Condvar::notify_all reaches only who is asleep.                         *)
NotifyAll == pc' = IF pc = "waiting" THEN "woken" ELSE pc

-----------------------------------------------------------------------------
(* latest_frame: check_alive first, then the slot.                         *)

NextPoll ==
  /\ pc = "idle"
  /\ pc' = "poll"
  /\ UNCHANGED <<after, overdue, running, lastSeen, result, shown, kit, death,
                 queue>>

CheckAlive ==
  /\ pc = "poll"
  /\ IF online /\ ~failed
     THEN pc' = "read" /\ UNCHANGED result
     ELSE pc' = "idle" /\ result' = IF online THEN "dead" ELSE "noDisplay"
  /\ UNCHANGED <<after, overdue, running, lastSeen, shown, kit, death, queue>>

(* Mutant: frames are counted one by one.                                  *)
ReadFrameCounting ==
  /\ pc = "read" /\ Newer
  /\ result' = "frame" /\ shown' = latest
  /\ lastSeen' = lastSeen + 1
  /\ pc' = "idle"
  /\ UNCHANGED <<after, overdue, running, kit, death, queue>>

(* The closure gets the newest frame while the slot is locked.             *)
ReadFrame ==
  /\ pc = "read" /\ Newer
  /\ result' = "frame" /\ shown' = latest
  /\ lastSeen' = seq
  /\ pc' = "idle"
  /\ UNCHANGED <<after, overdue, running, kit, death, queue>>

NothingNew ==
  /\ pc = "read" /\ ~Newer
  /\ result' = "unchanged"
  /\ pc' = "idle"
  /\ UNCHANGED <<after, overdue, running, lastSeen, shown, kit, death, queue>>

(* A deadline passes: STREAM_START_TIMEOUT, STREAM_STOP_TIMEOUT or         *)
(* FIRST_FRAME_TIMEOUT.                                                    *)
DeadlinePasses ==
  /\ pc \in Blocking /\ ~overdue
  /\ overdue' = TRUE
  /\ UNCHANGED <<pc, after, running, lastSeen, result, shown, kit, death, queue>>

-----------------------------------------------------------------------------
(* The delivery queue: ingest, one complete frame at a time.  Its critical *)
(* sections wait for the slot's mutex.                                     *)

FrameArrives ==
  /\ streaming /\ qpc = "idle" /\ arrived < MaxFrames
  /\ ~HoldsSlot
  /\ arrived' = arrived + 1
  /\ hand' = spare /\ spare' = FALSE
  /\ qpc' = "copying"
  /\ UNCHANGED <<workerVars, kit, death, latest, seq, allocs>>

(* A buffer that never held a frame is allocated by the copy; the frame it *)
(* displaces leaves its buffer as the spare.                               *)
Publish ==
  /\ qpc = "copying" /\ ~HoldsSlot
  /\ latest' = arrived /\ seq' = seq + 1
  /\ spare' = (latest # 0)
  /\ allocs' = IF hand THEN allocs ELSE allocs + 1
  /\ hand' = FALSE
  /\ qpc' = "notify"
  /\ UNCHANGED <<workerVars, kit, death, arrived>>

(* The pixel buffer could not be read: the buffer goes back.               *)
ReturnSpare ==
  /\ qpc = "copying" /\ ~HoldsSlot
  /\ spare' = (hand \/ spare)
  /\ hand' = FALSE
  /\ qpc' = "idle"
  /\ UNCHANGED <<workerVars, kit, death, arrived, latest, seq, allocs>>

NotifyFrame ==
  /\ qpc = "notify"
  /\ NotifyAll
  /\ qpc' = "idle"
  /\ UNCHANGED <<after, overdue, running, lastSeen, result, shown, kit, death,
                 arrived, slot, allocs>>

-----------------------------------------------------------------------------
(* ScreenCaptureKit.                                                       *)

(* It acts on a start whenever it gets to it, even when nobody waits any   *)
(* more; requests are handled in order.                                    *)
KitStarts ==
  /\ startReq = "pending" /\ ~wedged
  /\ \/ startReq' = "ok" /\ streaming' = TRUE
     \/ startReq' = "error" /\ UNCHANGED streaming
  /\ UNCHANGED <<workerVars, stopReq, wedged, online, death, queue>>

(* Stopping what does not run reports an error.                            *)
KitStops ==
  /\ stopReq = "pending" /\ startReq # "pending" /\ ~wedged
  /\ streaming' = FALSE
  /\ stopReq' = IF streaming THEN "ok" ELSE "error"
  /\ UNCHANGED <<workerVars, startReq, wedged, online, death, queue>>

KitHangs ==
  /\ ~wedged
  /\ wedged' = TRUE
  /\ UNCHANGED <<workerVars, startReq, stopReq, streaming, online, death, queue>>

DisplayChanges ==
  /\ online' = ~online
  /\ UNCHANGED <<workerVars, startReq, stopReq, streaming, wedged, death, queue>>

(* The stream ends by itself; the delegate is called on another thread.    *)
StreamDies ==
  /\ streaming /\ delegate = "idle"
  /\ streaming' = FALSE
  /\ delegate' = "called"
  /\ UNCHANGED <<workerVars, startReq, stopReq, wedged, online, failed, queue>>

(* Shared::fail: it sets the failure, then notifies, holding no lock of    *)
(* the slot's.                                                             *)
SetFailure ==
  /\ delegate = "called"
  /\ failed' = TRUE
  /\ delegate' = "notify"
  /\ UNCHANGED <<workerVars, kit, queue>>

NotifyFailure ==
  /\ delegate = "notify"
  /\ NotifyAll
  /\ delegate' = "done"
  /\ UNCHANGED <<after, overdue, running, lastSeen, result, shown, kit, failed,
                 queue>>

-----------------------------------------------------------------------------
(* Inside a call the worker goes on by itself; between calls its loop      *)
(* decides when to poll and when to end.                                   *)
CallStep == Started \/ StartFails \/ StopEnds \/ Fallback \/ CheckSlot
            \/ CheckFailure \/ WaitOrGiveUp \/ WaitTimesOut \/ CheckAlive
            \/ ReadFrame \/ NothingNew
LoopStep == StartFailsEarly \/ StartCapture \/ DropSource \/ NextPoll
            \/ Screenshot \/ SpuriousWake
QueueStep    == Publish \/ ReturnSpare \/ NotifyFrame
DelegateStep == SetFailure \/ NotifyFailure
KitAnswers   == KitStarts \/ KitStops
KitStep      == KitAnswers \/ KitHangs \/ StreamDies \/ DisplayChanges
                \/ FrameArrives

Next == CallStep \/ LoopStep \/ DeadlinePasses \/ QueueStep \/ DelegateStep
        \/ KitStep

Spec == Init /\ [][Next]_vars

(* Threads are scheduled, deadlines pass, and ScreenCaptureKit answers     *)
(* unless it hangs.  Nothing is assumed of frames, of the display or of    *)
(* what the recording loop decides.                                        *)
Fairness == /\ WF_vars(CallStep) /\ WF_vars(DeadlinePasses)
            /\ WF_vars(QueueStep) /\ WF_vars(DelegateStep)
            /\ WF_vars(KitAnswers)

FairSpec == Spec /\ Fairness

-----------------------------------------------------------------------------
(* Types of the variables.                                                 *)
TypeOK ==
  /\ pc \in WorkerPcs /\ after \in {"fallback", "gone"}
  /\ overdue \in BOOLEAN /\ running \in BOOLEAN
  /\ lastSeen \in Nat /\ shown \in Nat
  /\ result \in {"none", "frame", "unchanged", "dead", "noDisplay"}
  /\ startReq \in Requests /\ stopReq \in Requests
  /\ streaming \in BOOLEAN /\ wedged \in BOOLEAN /\ online \in BOOLEAN
  /\ delegate \in {"idle", "called", "notify", "done"} /\ failed \in BOOLEAN
  /\ qpc \in {"idle", "copying", "notify"} /\ arrived \in Nat
  /\ hand \in BOOLEAN /\ spare \in BOOLEAN
  /\ latest \in Nat /\ seq \in Nat /\ allocs \in Nat

(* A published frame cannot be missed: whoever sleeps in wait_frame        *)
(* although a newer frame is in the slot is about to be notified, because  *)
(* the slot stays locked from the look at it until the sleep               *)
(* (stream.rs:487-501).  A failure is published without that lock          *)
(* (stream.rs:154-157) and can be missed; only the deadline ends that wait.*)
NoMissedFrame == pc = "waiting" /\ Newer => qpc = "notify"

(* Two buffers serve the whole recording, bad frames included: a third is  *)
(* never allocated (stream.rs:92-94).                                      *)
AllocatesTwice == allocs =< 2

(* The closure gets the newest frame, and none a second time or after an   *)
(* older one (stream.rs:127-133, 466-477).                                 *)
NewestOnce ==
  [][pc = "read" /\ pc' = "idle" /\ result' = "frame"
       => shown' = latest /\ shown' > shown]_vars

(* ScreenCaptureKit cannot hang the recording worker: starting, stopping   *)
(* and waiting for the first frame end although it may never answer, and   *)
(* although the failure's notification may be lost (stream.rs:40-46).      *)
CallsReturn ==
  /\ pc = "starting" ~> pc # "starting"
  /\ pc = "stopping" ~> pc # "stopping"
  /\ pc \in Waiting ~> pc \notin Waiting

(* The screen is not captured for ever after the worker let go of the      *)
(* stream, even when a start completes after its deadline: a stop has      *)
(* been asked for, and only a hung ScreenCaptureKit leaves it undone       *)
(* (stream.rs:423-425, 510-529).                                           *)
StreamEnds == pc \in {"screenshots", "gone"} ~> (wedged \/ ~streaming)

(* Neither side outlasts the other's silence.                              *)
NothingHangs == CallsReturn /\ StreamEnds
=============================================================================

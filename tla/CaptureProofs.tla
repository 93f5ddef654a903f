----------------------------- MODULE CaptureProofs -----------------------------
(***************************************************************************)
(* Proofs about two components of snapforge-capture that run side by side  *)
(* during a recording and share no state, for any number of frames and any *)
(* limits.                                                                 *)
(*                                                                         *)
(* The mailbox of StreamCapture: no published frame is missed, frames come *)
(* newest first and once, and two buffers serve the whole recording.       *)
(*                                                                         *)
(* ClickTap: nothing outlives a dropped handle.                            *)
(***************************************************************************)
EXTENDS StreamCapture, ClickTap, TLAPS

(* The counters are counters.                                              *)
Numbers == /\ lastSeen \in Nat /\ shown \in Nat /\ arrived \in Nat
           /\ latest \in Nat /\ seq \in Nat /\ allocs \in Nat

(* While the worker owns the slot it has seen that nothing new is there.   *)
Looked == HoldsSlot => ~Newer

(* Every buffer ever allocated is in the slot or in the queue's hands.     *)
Buffers ==
  /\ allocs = (IF latest = 0 THEN 0 ELSE 1) + (IF spare \/ hand THEN 1 ELSE 0)
  /\ hand => qpc = "copying"
  /\ spare => qpc # "copying"

(* Frames enter the slot in the order in which they arrive.                *)
InOrder ==
  /\ lastSeen =< seq
  /\ shown =< latest
  /\ Newer => shown < latest
  /\ latest =< arrived
  /\ qpc = "copying" => latest < arrived

(* stop_inner leads out of the calls that wait for frames.                 *)
After == after \in {"fallback", "gone"}

IInv == Numbers /\ After /\ Looked /\ NoMissedFrame /\ Buffers /\ InOrder

(* Before the first frame the invariant holds.                             *)
LEMMA InitEstablishes == Init => IInv
<1> SUFFICES ASSUME Init PROVE IInv
  OBVIOUS
<1>1. Numbers /\ After
  BY DEF Init, Numbers, After
<1>2. Looked /\ NoMissedFrame
  BY DEF Init, Looked, HoldsSlot, NoMissedFrame
<1>3. Buffers /\ InOrder
  BY DEF Init, Buffers, InOrder, Newer
<1>4. QED
  BY <1>1, <1>2, <1>3 DEF IInv

(* The parts of the invariant that speak of the mailbox only.              *)
LEMMA MailboxKept ==
  ASSUME Buffers, InOrder, UNCHANGED <<queue, lastSeen, shown>>
  PROVE  Buffers' /\ InOrder'
  BY DEF Buffers, InOrder, Newer, queue, slot

(* A step of the worker inside a call.                                     *)
LEMMA CallStepKeeps == IInv /\ CallStep => IInv'
<1> SUFFICES ASSUME IInv, CallStep PROVE IInv'
  OBVIOUS
<1> USE DEF IInv, Numbers, After, Looked,
            HoldsSlot, NoMissedFrame, Newer, kit, death, queue, slot
<1>1. CASE ReadFrame
  BY <1>1 DEF ReadFrame, Buffers, InOrder
<1>2. CASE Started \/ StartFails \/ StopEnds \/ Fallback
  <2>1. Buffers' /\ InOrder'
    BY <1>2, MailboxKept DEF Started, StartFails, StopInner, StopEnds, Fallback
  <2>2. Numbers' /\ After'
    BY <1>2 DEF Started, StartFails, StopInner, StopEnds, Fallback
  <2>3. pc' \notin {"checkFailure", "aboutToWait", "waiting"}
    <3>1. CASE StopEnds
      BY <3>1 DEF StopEnds, After
    <3>2. CASE Started \/ StartFails \/ Fallback
      BY <3>2 DEF Started, StartFails, StopInner, Fallback
    <3>3. QED
      BY <1>2, <3>1, <3>2
  <2>4. QED
    BY <2>1, <2>2, <2>3
<1>3. CASE CheckSlot \/ CheckFailure \/ WaitOrGiveUp \/ WaitTimesOut
  <2>1. Buffers' /\ InOrder'
    BY <1>3, MailboxKept DEF CheckSlot, CheckFailure, WaitOrGiveUp, WaitTimesOut
  <2>2. Numbers' /\ After'
    BY <1>3 DEF CheckSlot, CheckFailure, WaitOrGiveUp, WaitTimesOut
  <2>3. Looked' /\ NoMissedFrame'
    BY <1>3 DEF CheckSlot, CheckFailure, WaitOrGiveUp, WaitTimesOut
  <2>4. QED
    BY <2>1, <2>2, <2>3
<1>4. CASE CheckAlive \/ NothingNew
  <2>1. Buffers' /\ InOrder'
    BY <1>4, MailboxKept DEF CheckAlive, NothingNew
  <2>2. Numbers' /\ After'
    BY <1>4 DEF CheckAlive, NothingNew
  <2>3. Looked' /\ NoMissedFrame'
    BY <1>4 DEF CheckAlive, NothingNew
  <2>4. QED
    BY <2>1, <2>2, <2>3
<1>5. QED
  BY <1>1, <1>2, <1>3, <1>4 DEF CallStep

(* A step the recording loop, the clock or ScreenCaptureKit takes, frames  *)
(* apart.                                                                  *)
LEMMA OutsideStepKeeps ==
  ASSUME IInv,
         LoopStep \/ DeadlinePasses \/ DelegateStep \/ KitAnswers \/ KitHangs
         \/ StreamDies \/ DisplayChanges
  PROVE  IInv'
<1> USE DEF IInv, Numbers, After, Looked,
            HoldsSlot, NoMissedFrame, Newer, kit, death, queue, slot
<1>1. CASE LoopStep
  <2>1. Buffers' /\ InOrder'
    BY <1>1, MailboxKept
    DEF LoopStep, StartFailsEarly, StartCapture, DropSource, StopInner, NextPoll,
        Screenshot, SpuriousWake
  <2>2. Numbers' /\ After'
    BY <1>1
    DEF LoopStep, StartFailsEarly, StartCapture, DropSource, StopInner, NextPoll,
        Screenshot, SpuriousWake
  <2>3. Looked' /\ NoMissedFrame'
    BY <1>1
    DEF LoopStep, StartFailsEarly, StartCapture, DropSource, StopInner, NextPoll,
        Screenshot, SpuriousWake
  <2>4. QED
    BY <2>1, <2>2, <2>3
<1>2. CASE DeadlinePasses \/ DelegateStep
  <2>1. Buffers' /\ InOrder'
    BY <1>2, MailboxKept
    DEF DeadlinePasses, DelegateStep, SetFailure, NotifyFailure, NotifyAll, workerVars
  <2>2. Numbers' /\ After'
    BY <1>2
    DEF DeadlinePasses, DelegateStep, SetFailure, NotifyFailure, NotifyAll, workerVars
  <2>3. Looked' /\ NoMissedFrame'
    BY <1>2
    DEF DeadlinePasses, DelegateStep, SetFailure, NotifyFailure, NotifyAll, workerVars
  <2>4. QED
    BY <2>1, <2>2, <2>3
<1>3. CASE KitAnswers \/ KitHangs \/ StreamDies \/ DisplayChanges
  <2>1. Buffers' /\ InOrder'
    BY <1>3, MailboxKept
    DEF KitAnswers, KitStarts, KitStops, KitHangs, StreamDies, DisplayChanges,
        workerVars
  <2>2. Numbers' /\ After'
    BY <1>3
    DEF KitAnswers, KitStarts, KitStops, KitHangs, StreamDies, DisplayChanges,
        workerVars
  <2>3. Looked' /\ NoMissedFrame'
    BY <1>3
    DEF KitAnswers, KitStarts, KitStops, KitHangs, StreamDies, DisplayChanges,
        workerVars
  <2>4. QED
    BY <2>1, <2>2, <2>3
<1>4. QED
  BY <1>1, <1>2, <1>3

(* A step of the delivery queue.                                           *)
LEMMA QueueStepKeeps == IInv /\ (QueueStep \/ FrameArrives) => IInv'
<1> SUFFICES ASSUME IInv, QueueStep \/ FrameArrives PROVE IInv'
  OBVIOUS
<1> USE DEF IInv, Numbers, After, Looked,
            HoldsSlot, NoMissedFrame, Newer, workerVars, kit, death, slot,
            Buffers, InOrder
<1>1. CASE FrameArrives
  BY <1>1 DEF FrameArrives
<1>2. CASE Publish
  <2> USE <1>2 DEF Publish
  <2>1. Numbers' /\ After' /\ Looked' /\ NoMissedFrame' /\ InOrder'
    OBVIOUS
  <2>2. ~spare /\ latest' # 0 /\ ~hand' /\ qpc' = "notify"
    OBVIOUS
  <2>3. spare' <=> latest # 0
    OBVIOUS
  <2>4. allocs' = 1 + (IF latest = 0 THEN 0 ELSE 1)
    BY <2>2
  <2>5. Buffers'
    BY <2>2, <2>3, <2>4
  <2>6. QED
    BY <2>1, <2>5
<1>3. CASE ReturnSpare
  BY <1>3 DEF ReturnSpare
<1>4. CASE NotifyFrame
  BY <1>4 DEF NotifyFrame, NotifyAll
<1>5. QED
  BY <1>1, <1>2, <1>3, <1>4 DEF QueueStep

LEMMA StutterKeeps == IInv /\ UNCHANGED vars => IInv'
  BY DEF IInv, Numbers, After, Looked, HoldsSlot, NoMissedFrame, Newer, Buffers,
         InOrder, vars, workerVars, kit, death, queue, slot

(* No step of the worker, of ScreenCaptureKit or of its queues breaks it.  *)
LEMMA NextPreserves == IInv /\ [Next]_vars => IInv'
  BY CallStepKeeps, OutsideStepKeeps, QueueStepKeeps, StutterKeeps
  DEF Next, KitStep

(* So it holds throughout a recording.                                     *)
LEMMA Invariance == Spec => []IInv
  BY InitEstablishes, NextPreserves, PTL DEF Spec

(* A frame published while the worker waits for its first one wakes it, or *)
(* is found by its next look: no interleaving loses it (wait_frame against *)
(* ingest).                                                                *)
THEOREM FirstFrameNotMissed == Spec => []NoMissedFrame
<1>1. IInv => NoMissedFrame
  BY DEF IInv
<1>2. QED
  BY <1>1, Invariance, PTL

(* Steady-state recording allocates nothing: the displaced frame's buffer  *)
(* is always the next to be filled (FrameSlot).                            *)
THEOREM TwoBuffersServe == Spec => []AllocatesTwice
<1>1. IInv => AllocatesTwice
  BY DEF IInv, Numbers, Buffers, AllocatesTwice
<1>2. QED
  BY <1>1, Invariance, PTL

(* Each poll hands out the newest frame, and no frame twice (latest_frame).*)
THEOREM FramesInOrder == Spec => NewestOnce
<1>1. IInv /\ [Next]_vars =>
        [pc = "read" /\ pc' = "idle" /\ result' = "frame"
           => shown' = latest /\ shown' > shown]_vars
  <2> SUFFICES ASSUME IInv, Next, pc = "read", pc' = "idle", result' = "frame"
               PROVE  shown' = latest /\ shown' > shown
    OBVIOUS
  <2>1. CASE CallStep
    <3>1. ReadFrame
      BY <2>1
      DEF CallStep, Started, StartFails, StopEnds, Fallback, CheckSlot,
          CheckFailure, WaitOrGiveUp, WaitTimesOut, CheckAlive, NothingNew
    <3>2. QED
      BY <3>1 DEF ReadFrame, IInv, InOrder, Numbers
  <2>2. CASE LoopStep \/ DeadlinePasses
    BY <2>2 DEF LoopStep, StartFailsEarly, StartCapture, DropSource, NextPoll,
                Screenshot, SpuriousWake, DeadlinePasses, Blocking, Waiting
  <2>3. CASE QueueStep \/ DelegateStep \/ KitStep
    BY <2>3 DEF QueueStep, Publish, ReturnSpare, NotifyFrame, NotifyAll,
                DelegateStep, SetFailure, NotifyFailure, KitStep, KitAnswers,
                KitStarts, KitStops, KitHangs, StreamDies, DisplayChanges,
                FrameArrives, workerVars
  <2>4. QED
    BY <2>1, <2>2, <2>3 DEF Next
<1>2. QED
  BY <1>1, Invariance, PTL DEF Spec, NewestOnce

-----------------------------------------------------------------------------
(* ClickTap.  The argument follows the senders of the channel.  A thread   *)
(* that could still send holds one, so a forwarder that ended has seen the *)
(* last click, and an owner that joined both threads leaves none behind.   *)

Early == {"none", "setup"}
Late  == {"leave", "ended"}

(* Who can still send.                                                     *)
Senders ==
  /\ open \subseteq {"caller", "worker"}
  /\ "worker" \in open <=> worker \notin {"none", "ended"}
  /\ "caller" \in open <=> owner = "setup"
  /\ owner = "none" <=> worker = "none"

(* The tap is gone before the thread that serves it.                       *)
TapFirst ==
  /\ tap \in {"none", "enabled", "disabled", "released"}
  /\ worker \in {"none", "create"} => tap = "none"
  /\ worker \in Late => tap \in {"none", "released"}

(* The forwarder, if there is one, ends with an empty and closed channel.  *)
Forwarding ==
  /\ pending \in Nat
  /\ forwards => forwarder \in {"recv", "callback", "ended"} /\ owner \notin Early
  /\ ~forwards => forwarder = "none"
  /\ ~forwards /\ owner \notin Early => pending = 0
  /\ forwarder = "ended" => open = {} /\ pending = 0
  /\ owner = "none" \/ worker = "create" => pending = 0
  /\ setup = "failed" => worker \in Late /\ pending = 0
  /\ worker \in {"none", "create", "wire"} => setup = "none" /\ pending = 0
  /\ owner = "tracking" => forwards

(* What the owner has waited for.                                          *)
Joined ==
  /\ forwards = TRUE \/ forwards = FALSE
  /\ owner = "joinForwarder" => forwards /\ worker = "ended"
  /\ owner = "gone" => worker = "ended" /\ (forwards => forwarder = "ended")

TapInv == Senders /\ TapFirst /\ Forwarding /\ Joined

(* The invariant holds initially.                                          *)
LEMMA TapInitially == TapInit => TapInv
  BY DEF TapInit, TapInv, Senders, TapFirst, Forwarding, Joined, Early, Late

(* One case per action.                                                    *)
LEMMA TapInductive == TapInv /\ [TapNext]_tapVars => TapInv'
<1> SUFFICES ASSUME TapInv, [TapNext]_tapVars
             PROVE  TapInv'
  OBVIOUS
<1> USE DEF TapInv, Senders, TapFirst, Forwarding, Joined, Early, Late,
            handle, limiter, channel
<1>1. CASE StartTracking
  BY <1>1 DEF StartTracking
<1>2. CASE DropHandle
  BY <1>2 DEF DropHandle
<1>3. CASE WorkerStep
  <2>1. CASE CreateTap
    BY <2>1 DEF CreateTap
  <2>2. CASE WireSource
    BY <2>2 DEF WireSource
  <2>3. CASE CheckFlag
    BY <2>3 DEF CheckFlag
  <2>4. CASE SliceEnds
    BY <2>4 DEF SliceEnds
  <2>5. CASE HearDisable
    BY <2>5 DEF HearDisable
  <2>6. CASE Verdict
    BY <2>6 DEF Verdict
  <2>7. CASE Cleanup
    BY <2>7 DEF Cleanup
  <2>8. CASE Leave
    BY <2>8 DEF Leave
  <2>9. CASE EnterSlice
    BY <2>9 DEF EnterSlice
  <2> QED
    BY <1>3, <2>1, <2>2, <2>3, <2>4, <2>5, <2>6, <2>7, <2>8, <2>9 DEF WorkerStep
<1>4. CASE Click
  BY <1>4 DEF Click
<1>5. CASE ForwarderStep
  <2>1. CASE Receive
    BY <2>1 DEF Receive
  <2>2. CASE CallbackReturns
    BY <2>2 DEF CallbackReturns
  <2> QED
    BY <1>5, <2>1, <2>2 DEF ForwarderStep
<1>6. CASE OwnerStep
  <2>1. CASE Spawn
    BY <2>1 DEF Spawn
  <2>2. CASE SetupFails
    BY <2>2 DEF SetupFails
  <2>3. CASE RaiseFlag
    BY <2>3 DEF RaiseFlag
  <2>4. CASE WakeRunLoop
    BY <2>4 DEF WakeRunLoop
  <2>5. CASE JoinWorker
    BY <2>5 DEF JoinWorker
  <2>6. CASE JoinForwarder
    BY <2>6 DEF JoinForwarder
  <2> QED
    BY <1>6, <2>1, <2>2, <2>3, <2>4, <2>5, <2>6 DEF OwnerStep
<1>7. CASE DisableTap
  BY <1>7 DEF DisableTap
<1>8. CASE ChangePermission \/ Tick \/ UNCHANGED tapVars
  <2>1. UNCHANGED <<owner, setup, forwards, worker, tap, forwarder, open, pending>>
    BY <1>8 DEF ChangePermission, Tick, tapVars
  <2> QED
    BY <2>1
<1> QED
  BY <1>1, <1>2, <1>3, <1>4, <1>5, <1>6, <1>7, <1>8 DEF TapNext

(* Once a click handle is dropped no callback can reach its owner, the tap *)
(* is released and every click that was taken has been delivered.          *)
THEOREM NothingOutlivesHandle == TapSpec => []NothingAfterDrop
<1>1. TapInv => NothingAfterDrop
  <2> SUFFICES ASSUME TapInv, owner = "gone"
               PROVE  /\ worker = "ended" /\ forwarder \in {"none", "ended"}
                      /\ tap \in {"none", "released"} /\ open = {}
                      /\ pending = 0
    BY DEF NothingAfterDrop
  <2>1. worker = "ended" /\ forwarder \in {"none", "ended"} /\ pending = 0
    BY DEF TapInv, Forwarding, Joined, Early
  <2>2. tap \in {"none", "released"} /\ open = {}
    BY <2>1 DEF TapInv, Senders, TapFirst, Late
  <2> QED
    BY <2>1, <2>2
<1> QED
  BY <1>1, TapInitially, TapInductive, PTL DEF TapSpec
=============================================================================

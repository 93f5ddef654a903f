------------------------------ MODULE ClickTap ------------------------------
(***************************************************************************)
(* Following mouse clicks: the event tap and the thread whose run loop     *)
(* serves it (crates/snapforge-capture/src/clicks.rs), and the forwarder   *)
(* that passes each click to a callback (crates/snapforge-app/src/         *)
(* clicks.rs).  The owner starts both and, by dropping its handle, ends    *)
(* both.  macOS may disable the tap at any time, once in a while because a *)
(* callback was slow, or again and again because the permission is gone.   *)
(*                                                                         *)
(* A tick is half a minute or so: no thread that can run waits for one,    *)
(* and macOS disables a tap it does not permit sooner than that.           *)
(***************************************************************************)
EXTENDS Integers

CONSTANTS
  MaxReenable,  \* MAX_REENABLE_ATTEMPTS
  Window,       \* REENABLE_WINDOW, in ticks
  MaxPending    \* bound: clicks the forwarder is behind

ASSUME TapAssumption ==
  MaxReenable \in Nat \ {0} /\ Window \in Nat /\ MaxPending \in Nat \ {0}

VARIABLES
  owner,      \* where the owner is in start_click_tracking or in the drop
  setup,      \* what the worker sent through the rendezvous channel
  forwards,   \* the handle has a forwarder
  stop,       \* the stop flag both sides share
  woken,      \* CFRunLoopStop reached the run loop while it ran
  worker,     \* where the worker is
  tap,        \* "none", "enabled", "disabled", "released"
  notice,     \* macOS has a disable notification for the callback
  attempts,   \* ReenableLimiter::attempts_in_window
  calm,       \* ticks since its last_disable, Window + 1 for longer or never
  permitted,  \* the program may have a tap
  forwarder,  \* "none", "recv", "callback", "ended"
  open,       \* who holds a sender of the channel: "caller", "worker"
  pending     \* clicks in the channel

handle  == <<owner, forwards, stop>>
limiter == <<attempts, calm>>
channel == <<forwarder, open, pending>>
tapVars    == <<handle, setup, woken, worker, tap, notice, limiter, permitted, channel>>

TapInit ==
  /\ owner = "none" /\ setup = "none" /\ forwards = FALSE /\ stop = FALSE
  /\ woken = FALSE /\ worker = "none"
  /\ tap = "none" /\ notice = FALSE
  /\ attempts = 0 /\ calm = Window + 1
  /\ permitted \in BOOLEAN
  /\ forwarder = "none" /\ open = {} /\ pending = 0

-----------------------------------------------------------------------------
(* Starting.                                                               *)

(* start_click_tracking makes the channel and spawns the worker, which     *)
(* gets a sender of its own with its clone of the tracker.                 *)
StartTracking ==
  /\ owner = "none"
  /\ owner' = "setup" /\ worker' = "create" /\ open' = {"caller", "worker"}
  /\ UNCHANGED <<setup, forwards, stop, woken, tap, notice, limiter, permitted,
                 forwarder, pending>>

(* CGEventTapCreate.                                                       *)
CreateTap ==
  /\ worker = "create"
  /\ \/ permitted /\ tap' = "disabled" /\ worker' = "wire" /\ UNCHANGED setup
     \/ tap' = tap /\ worker' = "leave" /\ setup' = "failed"
  /\ UNCHANGED <<handle, woken, notice, limiter, permitted, channel>>

(* The run loop's source: attached, the tap enabled and `start` told.      *)
WireSource ==
  /\ worker = "wire"
  /\ \/ tap' = "enabled" /\ worker' = "check" /\ setup' = "live"
     \/ tap' = "released" /\ worker' = "leave" /\ setup' = "failed"
  /\ UNCHANGED <<handle, woken, notice, limiter, permitted, channel>>

(* The owner hears that the tap is live and spawns the forwarder, which    *)
(* takes the receiver along, or drops receiver and tap if it cannot.       *)
(* Returning drops the owner's clone of the tracker.                       *)
Spawn ==
  /\ owner = "setup" /\ setup = "live"
  /\ \/ /\ forwards' = TRUE /\ forwarder' = "recv" /\ owner' = "tracking"
        /\ UNCHANGED pending
     \/ /\ owner' = "drop" /\ pending' = 0
        /\ UNCHANGED <<forwards, forwarder>>
  /\ open' = open \ {"caller"}
  /\ UNCHANGED <<setup, stop, woken, worker, tap, notice, limiter, permitted>>

(* No tap: the worker is joined, and everything else goes with the return. *)
SetupFails ==
  /\ owner = "setup" /\ setup = "failed" /\ worker = "ended"
  /\ owner' = "gone" /\ open' = open \ {"caller"}
  /\ UNCHANGED <<forwards, stop, setup, woken, worker, tap, notice, limiter,
                 permitted, forwarder, pending>>

-----------------------------------------------------------------------------
(* The worker: bounded slices of its run loop, the flag between them.      *)

CheckFlag ==
  /\ worker = "check"
  /\ worker' = IF stop THEN "cleanup" ELSE "enter"
  /\ UNCHANGED <<handle, setup, woken, tap, notice, limiter, permitted, channel>>

EnterSlice ==
  /\ worker = "enter"
  /\ worker' = "slice" /\ woken' = FALSE
  /\ UNCHANGED <<handle, setup, tap, notice, limiter, permitted, channel>>

(* Mutant of SliceEnds: one CFRunLoopRun instead of slices.                *)
OnlyWhenWoken ==
  /\ worker = "slice" /\ woken
  /\ worker' = "check"
  /\ UNCHANGED <<handle, setup, woken, tap, notice, limiter, permitted, channel>>

(* A slice ends when nothing came in for 0.1 s, or woken by CFRunLoopStop. *)
SliceEnds ==
  /\ worker = "slice" /\ (woken \/ ~notice)
  /\ worker' = "check"
  /\ UNCHANGED <<handle, setup, woken, tap, notice, limiter, permitted, channel>>

(* Mutant of Click: a healthy click refills the budget of re-enables.      *)
ClickRefills ==
  /\ worker = "slice" /\ tap = "enabled" /\ pending < MaxPending
  /\ worker' = "check"
  /\ attempts' = 0
  /\ pending' = IF forwards \/ owner = "setup" THEN pending + 1 ELSE pending
  /\ UNCHANGED <<handle, setup, woken, tap, notice, calm, permitted, forwarder, open>>

(* A click, in one slice: ClickTracker::add.  It is lost if nobody can     *)
(* receive any more.                                                       *)
Click ==
  /\ worker = "slice" /\ tap = "enabled" /\ pending < MaxPending
  /\ worker' = "check"
  /\ pending' = IF forwards \/ owner = "setup" THEN pending + 1 ELSE pending
  /\ UNCHANGED <<handle, setup, woken, tap, notice, limiter, permitted, forwarder, open>>

(* The callback hears that the tap was disabled; during a teardown it      *)
(* leaves it so.                                                           *)
HearDisable ==
  /\ worker = "slice" /\ notice
  /\ notice' = FALSE
  /\ worker' = IF stop THEN "check" ELSE "verdict"
  /\ UNCHANGED <<handle, setup, woken, tap, limiter, permitted, channel>>

(* Mutant of OnDisable: the budget is never refilled.                      *)
OnDisableNeverRefilled ==
  /\ calm' = 0
  /\ attempts' = IF attempts <= MaxReenable THEN attempts + 1 ELSE attempts

(* ReenableLimiter::on_disable.  Beyond MaxReenable + 1 the count is alike.*)
OnDisable ==
  /\ calm' = 0
  /\ attempts' = IF calm > Window THEN 1
                 ELSE IF attempts <= MaxReenable THEN attempts + 1 ELSE attempts

Verdict ==
  /\ worker = "verdict"
  /\ OnDisable
  /\ tap' = IF attempts' <= MaxReenable THEN "enabled" ELSE tap
  /\ worker' = "check"
  /\ UNCHANGED <<handle, setup, woken, notice, permitted, channel>>

(* The tap is disabled, detached and released on the thread that served it.*)
Cleanup ==
  /\ worker = "cleanup"
  /\ tap' = "released" /\ notice' = FALSE
  /\ worker' = "leave"
  /\ UNCHANGED <<handle, setup, woken, limiter, permitted, channel>>

(* The last use of the tracker's clone, and of its sender.                 *)
Leave ==
  /\ worker = "leave"
  /\ worker' = "ended" /\ open' = open \ {"worker"}
  /\ UNCHANGED <<handle, setup, woken, tap, notice, limiter, permitted, forwarder, pending>>

-----------------------------------------------------------------------------
(* The forwarder.                                                          *)

(* Mutant of Receive: the forwarder polls the flag and leaves clicks.      *)
ReceiveUnlessStopped ==
  /\ forwarder = "recv"
  /\ \/ pending > 0 /\ ~stop /\ pending' = pending - 1 /\ forwarder' = "callback"
     \/ stop /\ forwarder' = "ended" /\ UNCHANGED pending
  /\ UNCHANGED <<handle, setup, woken, worker, tap, notice, limiter, permitted, open>>

(* recv() hands out what is in the channel and fails once nobody can send. *)
Receive ==
  /\ forwarder = "recv"
  /\ \/ pending > 0 /\ pending' = pending - 1 /\ forwarder' = "callback"
     \/ pending = 0 /\ open = {} /\ forwarder' = "ended" /\ UNCHANGED pending
  /\ UNCHANGED <<handle, setup, woken, worker, tap, notice, limiter, permitted, open>>

CallbackReturns ==
  /\ forwarder = "callback" /\ forwarder' = "recv"
  /\ UNCHANGED <<handle, setup, woken, worker, tap, notice, limiter, permitted, open, pending>>

-----------------------------------------------------------------------------
(* Dropping the handle: first the tap, then the forwarder.                 *)
DropHandle ==
  /\ owner = "tracking"
  /\ owner' = "drop"
  /\ UNCHANGED <<forwards, stop, setup, woken, worker, tap, notice, limiter,
                 permitted, channel>>

RaiseFlag ==
  /\ owner = "drop"
  /\ stop' = TRUE /\ owner' = "wake"
  /\ UNCHANGED <<forwards, setup, woken, worker, tap, notice, limiter, permitted, channel>>

(* CFRunLoopStop does nothing to a run loop that is not running.           *)
WakeRunLoop ==
  /\ owner = "wake"
  /\ woken' = (woken \/ worker \in {"slice", "verdict"})
  /\ owner' = "joinWorker"
  /\ UNCHANGED <<forwards, stop, setup, worker, tap, notice, limiter, permitted, channel>>

(* Mutant of JoinWorker: the forwarder is not waited for.                  *)
JoinWorkerOnly ==
  /\ owner = "joinWorker" /\ worker = "ended"
  /\ owner' = "gone"
  /\ UNCHANGED <<forwards, stop, setup, woken, worker, tap, notice, limiter,
                 permitted, channel>>

JoinWorker ==
  /\ owner = "joinWorker" /\ worker = "ended"
  /\ owner' = IF forwards THEN "joinForwarder" ELSE "gone"
  /\ UNCHANGED <<forwards, stop, setup, woken, worker, tap, notice, limiter,
                 permitted, channel>>

JoinForwarder ==
  /\ owner = "joinForwarder" /\ forwarder = "ended"
  /\ owner' = "gone"
  /\ UNCHANGED <<forwards, stop, setup, woken, worker, tap, notice, limiter,
                 permitted, channel>>

-----------------------------------------------------------------------------
(* macOS, the user and the time.                                           *)

(* A callback was too slow, or the permission is gone.                     *)
DisableTap ==
  /\ tap = "enabled" /\ tap' = "disabled" /\ notice' = TRUE
  /\ UNCHANGED <<handle, setup, woken, worker, limiter, permitted, channel>>

(* The user revokes the permission in the system's settings, or grants it. *)
ChangePermission ==
  /\ permitted' = ~permitted
  /\ UNCHANGED <<handle, setup, woken, worker, tap, notice, limiter, channel>>

Tick ==
  /\ permitted \/ tap # "enabled"
  /\ ~notice /\ worker # "verdict"
  /\ calm <= Window /\ calm' = calm + 1
  /\ UNCHANGED <<handle, setup, woken, worker, tap, notice, attempts, permitted, channel>>

WorkerStep    == CreateTap \/ WireSource \/ CheckFlag \/ EnterSlice \/ SliceEnds
                 \/ HearDisable \/ Verdict \/ Cleanup \/ Leave
ForwarderStep == Receive \/ CallbackReturns
OwnerStep     == Spawn \/ SetupFails \/ RaiseFlag \/ WakeRunLoop
                 \/ JoinWorker \/ JoinForwarder

TapNext == \/ StartTracking \/ DropHandle
        \/ WorkerStep \/ Click \/ ForwarderStep \/ OwnerStep
        \/ DisableTap \/ ChangePermission \/ Tick

TapSpec == TapInit /\ [][TapNext]_tapVars

(* Threads run and callbacks return; a forbidden tap is disabled.  No      *)
(* click, no permission and no drop is promised.                           *)
TapFairSpec ==
  /\ TapSpec
  /\ WF_tapVars(WorkerStep) /\ WF_tapVars(ForwarderStep) /\ WF_tapVars(OwnerStep)
  /\ WF_tapVars(~permitted /\ DisableTap)

-----------------------------------------------------------------------------
(* When the handle is gone - or could not be made - nothing of it is left: *)
(* no thread that could call back into the dropped object, no tap, and no  *)
(* click that was taken and not delivered (app/clicks.rs: Drop).           *)
NothingAfterDrop ==
  owner = "gone" =>
    /\ worker = "ended" /\ forwarder \in {"none", "ended"}
    /\ tap \in {"none", "released"} /\ open = {}
    /\ pending = 0

(* Starting and dropping come to an end: also a drop that overtakes the    *)
(* worker on its way into the run loop, so that CFRunLoopStop hits nothing *)
(* (clicks.rs:408-411, 600-606), and the forwarder's recv(), which only    *)
(* the worker's end unblocks (app/clicks.rs:46-49).                        *)
DropReturns ==
  /\ owner = "setup" ~> owner # "setup"
  /\ owner = "drop" ~> owner = "gone"

(* A tap that is not permitted is given up, whatever is clicked meanwhile; *)
(* one that is disabled once in a while works again, however often that    *)
(* happens (clicks.rs:114-121, 492-500).                                   *)
TapKeptOrGivenUp ==
  /\ <>[]~permitted => <>[](tap # "enabled")
  /\ [](notice => calm > Window) =>
       (notice ~> tap = "enabled" \/ stop)
=============================================================================

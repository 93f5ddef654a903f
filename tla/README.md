# Snapforge: a TLA+ model of the recorder and its surroundings

Snapforge is a macOS screenshot and screen-recording tool: a Qt front end
(`qt/`) over a Rust core (`crates/`) that is linked in as a static library and
called through a C interface.  This directory models the parts of it that are
hard to test: threads that wait for each other with deadlines, a child process
that can hang, a capture service that may never answer, an index file with
several writers, handles that C code shares between threads, the state machines
of the user interface that sit on top, and the files that all of them write: captures whose names collide, a configuration with two writers.

Contents

1. The system: parts, state, operations, interactions
2. The modules and how they correspond to the code
3. Abstract specifications and refinement
4. What each run checks, its bounds, and why they are enough
5. Fairness and deadlock
6. Disagreements between the code and what is said of it
7. What is proved
8. What is only model-checked, what is left out
9. Plan

Paths below are relative to the repository's root.  `PROJECT.json` maps every
definition to the lines it models, lists the hazards with the properties that
guard them, and gives for every property a mutation of the code's model that
the property catches.

To check a module by hand: `tlc -config RecordingEngine.cfg RecordingEngine.tla`,
`tlapm RecordingEngineProofs.tla`.

## 1. The system: parts, state, operations, interactions

| part | state it keeps | operations | talks to | what makes it hard |
|---|---|---|---|---|
| recording engine: `crates/snapforge-encode/src/record`, `crates/snapforge-app/src/recording.rs` | stop flag, state, worker thread, ffmpeg child and its mutex, frame clock, failure streak, output file | start, pause, resume, stop, drop, is_alive | stream capture (frames), ffmpeg (pipe, exit status), history (index) | the worker can be stuck in a capture call or in a pipe write; two threads and a process race two deadlines; every error path must reap and tidy |
| stream capture: `crates/snapforge-capture/src/capture/macos` | one-frame mailbox, failure flag, whether a stop is owed | start, poll, wait for the first frame, stop, fall back to screenshots | ScreenCaptureKit (start and stop with completion callbacks, frames and death on other threads) | a service that answers late or never; publishing between a look and a sleep |
| C interface handles: `crates/snapforge-ffi/src/lib.rs` | registries by address, reference counts, a mutex per handle | start, is_alive, output_path, pause, resume, stop, free | recordings and click taps below, any C++ thread above | freed pointers, reused addresses, the last reference dropping on any thread, stops that last 25 s |
| recording manager: `qt/src/capture`, with `AppController` and the tray | handle, stopping flag, stop generation, stop jobs, watchdog, auto-pause flag; what the tray shows | start, pause, resume, stop, tick, sleep, wake, destructor | engine through the C interface (stop on a worker thread), controller and tray by signals | late results of a stop the watchdog gave up on; quitting with threads inside Rust |
| global hotkeys: `qt/src/app/main.cpp`, `PreferencesWindow.cpp` | Carbon handler, references per action, capture flag, retry timer | register, release, reload, record a chord, save, reset, sleep, wake | Carbon, config, Preferences | the system drops either half on sleep; captures, saves, wakes and retries cross |
| history index: `crates/snapforge-storage/src/history.rs` | `history.json`, thumbnails, the lock, the queue of the thumbnail worker | add, remove, clear, list | captures and recordings (add), history window | concurrent read-modify-write, eviction against decoding, failed saves, crashes |
| overlay session: `qt/src/ui/overlay`, hotkey and tray entries of `main.cpp` | mode, purpose, region, capture number, frame, cursor override, busy gate | activate, grab, show, draw, pick, commit, cancel, layout change, wake | grab workers, annotation canvas, manager | posted events between check and use; late, failed and hung grabs; one window for all sessions |
| annotation editor: `qt/src/ui/annotation`, resizing in `OverlayWindow.cpp` | region, marks, half-drawn mark, open label, undo and redo stacks, step counter | draw, label, undo, redo, resize, commit, clear | overlay session | marks relative to a corner that moves; edits of what was undone |
| click tap: `crates/snapforge-capture/src/clicks.rs`, `crates/snapforge-app/src/clicks.rs`, `ClickTap.cpp` | tap, run loop thread, stop flag, re-enable budget, channel, forwarder thread | start, drop, callback | macOS event taps, the permission, C interface handles | a stop before the run loop runs; a tap macOS disables; threads joined in order |
| configuration: `crates/snapforge-storage/src/config.rs`, `PreferencesWindow.cpp` | `config.json` and its backups; in the window the fields, what was saved last, a snapshot of the whole file, the last region | load (normalise, heal), save, two merging writers, readers | Preferences, hotkeys, overlay, a user's editor | a file that cannot be read, is broken, or changes under a merge; what was typed against what was saved |
| screen capture: `crates/snapforge-capture/src/capture/macos.rs` | permission latch, "asked already" flag | capture a display, choose a recording's source, ask for permission | ScreenCaptureKit, CoreGraphics, the display list | answers after their deadline; displays that come and go between two attempts; dialogs that pile up |
| screenshots and file names: `crates/snapforge-app` | the directory, names claimed in it | capture, encode, claim a name, write, copy, index; start a recording | screen capture, formats, clipboard, history | names claimed against other threads and processes; each step may fail alone; crashes |
| frame clock, mp4 check | slot index; none | due frames; walk over boxes | engine; history | boundaries of arithmetic |
| formats, clipboard, display geometry, logger, shortcut parsing, renderer, toolbar, preferences, history window, Rust client, domain types, packaging | little or none | | | mostly input and output |

What makes each part correct, in a line: a recording ends with one truthful
answer in bounded time and leaves no process, file or index entry behind that
it should not; the manager accounts for each recording exactly once and never
strands the user; a hotkey does what the settings say or the user is told;
the index loses no entry and its thumbnails follow it; the overlay shows the
frame of its own session and throws no work away; marks stay on the pixels they
were put on; frames arrive in order, once, and none is slept over; no call
touches freed memory and nothing freed lives on; a dropped click tap calls back
no more, and a tap is given up only when it is forbidden; no write, failed write
or crash loses a setting or the only copy of a configuration; a screenshot is
of the display that was asked for, overwrites nothing, and says truly whether
it is on the disk.

## 2. The modules and how they correspond to the code

| module | models | state and atomicity |
|---|---|---|
| `RecordingEngine` | `ffmpeg.rs`, `recording.rs`: handle's owner, worker, ffmpeg, clock | `cpc` is where the owner is in `stop()` or `Drop`, `wpc` where the worker is in its loop, its finalization or its unwinding; `ff`, `reaped`, `stdinOpen`, `childLock` the child as the code sees it; `file`, `indexed` what is left on disk.  One action per step between two points where the other threads can be noticed: a lock, an atomic, a pipe write, a wait |
| `RecordingLifecycle` | the promise to whoever owns a handle | phase, verdict, file, index |
| `RecordingManager` | `RecordingManager.cpp/.h`, the controller's slots, the tray's recording state | every GUI handler is one action, with the slots its signals call; the stop worker thread is a process of four steps (`job`), whose result is posted to the GUI (`posted`); the destructor is two joins with a common deadline |
| `GlobalHotkeys` | registration in `main.cpp`, chord recording and saving in `PreferencesWindow.cpp` | `live` is what Carbon really holds, `hotkeys` the references the code keeps of it, `handler` the installed event handler, which a sleep may drop; everything is on the GUI thread |
| `HistoryIndex` | `history.rs` and the adds of `snapforge-app` | a call goes through `called, locked, loaded, saved, unlocked`; the worker checks before decoding and once more, under the lock, before installing; `Crash` resets everything but the disk |
| `History` | what an index promises | the list of entries, one operation at a time |
| `OverlaySession` | `OverlayWindow.cpp`, entry points in `main.cpp`, `AppController.cpp` | events posted to the GUI thread are a sequence (`posted`); a grab is a process known by its number; a watchdog is armed per number |
| `AnnotationEditor` | `AnnotationState.cpp`, `AnnotationCanvas.cpp`, resizing in `OverlayWindow.cpp` | one axis; marks with one coordinate relative to the region; `placed` is the ghost of where each was put on the screen |
| `EditHistory` | what undo and redo promise | a timeline and a position on it |
| `StreamCapture` | `stream.rs`, the `RecordingSource` of `macos.rs` | the worker (`pc`), the delivery queue (`qpc`), the delegate of the stream's death, and ScreenCaptureKit; the slot's lock is held from a look to the sleep on its condition variable |
| `HandleRegistry` | the recording and click handles of the C interface | a call is: clone under the registry lock, lock the handle, act, unlock, drop the clone; freeing removes, then drops two references; `addr` may repeat once memory is released |
| `ClickTap` | `clicks.rs` of capture and app, `ClickTap.cpp` | the owner (`owner`), the tap's thread (`worker`: flag, slice of the run loop, callback), the forwarder; who holds a sender of the channel (`open`); macOS disables and the user revokes at will |
| `ConfigStore` | `config.rs`, the loads, saves and merges of `PreferencesWindow.cpp` | every call of the store is made from the GUI thread: `call` is the one under way, `pc` where it is, `obj` what it read or is about to write.  One action per access to the file, between which the text editor may write it and the application may crash |
| `ScreenCapture` | `macos.rs`: one picture of a display | per call a place (`pc`); `order` is the active displays and an index a position in it; `latch`, `requested` are the two atomics; one action per access to them, per question to the system and per answer or deadline |
| `Screenshot` | `screenshot.rs`, `start_recording`, `claim_unique_path`, the capture functions of the C interface; extends `ScreenCapture` | `files` says for each name who made the file and what is in it; a call is one process from request to result, a recording's worker being the same process going on |
| `MCGlobalHotkeys`, `MCHistoryIndex`, `MCHandleRegistry` | | model values and the symmetry set |
| `RecordingEngineProofs`, `RecordingManagerProofs`, `HistoryIndexProofs`, `HandleRegistryProofs`, `ScreenshotProofs` | | theorems about the module of that name |
| `PreferencesProofs` | | theorems about `GlobalHotkeys` and `ConfigStore`, the two homes of what the preferences window sets |
| `OverlayProofs` | | theorems about `OverlaySession` and `AnnotationEditor`, the session and the editor in it |
| `CaptureProofs` | | theorems about `StreamCapture` and `ClickTap`, the two services a recording listens to |

Choices that run through all of them:

- **Time.**  `RecordingEngine` and `RecordingManager` count ticks.  A thread that
  polls every 20-25 ms acts at least once per tick, so a deadline that its
  poll loop could act upon is not passed over; anything that really waits for
  somebody else (a full pipe, a capture call, a lock, a process) may take any
  number of ticks.  `StreamCapture` needs no clock: a deadline is a flag that
  may go up at any moment during the call it limits.
- **GUI handlers are atomic**, because Qt runs one at a time; a direct signal
  is part of its emitter's action; queued calls, timers and worker results are
  actions of their own.
- **The outside may do what it may really do**: ffmpeg hangs, recovers, fails
  or dies at any step; ScreenCaptureKit never answers; `recordStop` wedges;
  the machine sleeps and drops hotkeys; a save, a load or a thumbnail fails; a
  C caller passes any pointer it ever saw, freed ones included.
- **Names.**  Two components that share a module of proofs share no variable; the
  second one's initial states, steps and tuple carry its name (`StoreInit`,
  `EditorNext`, `tapVars`), so that both can be spoken of at once.
- **Merged properties.**  Where several statements are two halves of one promise
  they are conjuncts of one definition with a name of its own
  (`AnswerIsTrue == OkMeansComplete /\ FailureReported`); the halves stay defined
  and can be checked alone.
- **Mutants** are operators defined just before the definition they mutate and
  named after what they get wrong.  They are not part of the specifications.

## 3. Abstract specifications and refinement

- `RecordingLifecycle`: a recording is begun once, may be paused and resumed
  until it is over, over is final, one verdict is given and only then, "ok"
  only for a finished file, and after the verdict nobody writes the file.
  `RecordingEngine` implements it (`ImplementsLifecycle`; checked, and proved
  for all deadlines).  `RecordingManager` is the other side of the same
  contract: what it does to each session's engine is a step that
  `RecordingLifecycle` allows (`EngineContract`; checked, and proved for any
  number of sessions), so the manager is measured against what the engine is
  proved to promise and not against a copy of it.
- `History`: each change of the index is one operation on everything that was
  there before.  `HistoryIndex` implements it (`NoLostUpdate`; checked, and
  proved for any number of threads, paths and crashes).
- `EditHistory`: undo and redo move along one line of drawings, an edit
  forgets the future.  `AnnotationEditor` implements it (`LinearHistory`; checked,
  and proved for any undo depth), the two stacks and the present drawing being
  laid end to end.

## 4. What each run checks, its bounds, and why they are enough

| run | states | bounds |
|---|---|---|
| `engine` | 39,000 | one recording; `stop()` waits 5 ticks and then 2 (25 s and 5 s in the code), the worker 4 for ffmpeg to finish (20 s) or 2 after a write error (5 s); captures that fail for 3 ticks on end end a recording (3 s) |
| `manager` | 28,000 | two recordings; watchdog after 3 ticks (40 s in the code), destructor after 2 |
| `hotkeys` | 340,000 | two actions, four chords: two free, one taken by another program, one unusable; two sleeps |
| `history` | 236,000 | three paths, two threads, a cap of two entries, three captures, one crash; threads and paths are symmetric |
| `overlay` | 423,000 | three capture numbers, two posted events at a time |
| `editor` | 262,000 | an overlay three pixels wide, regions of at least one, two marks, undo depth two |
| `stream` | 112,000 | four frames |
| `clicks` | 15,000 | three re-enables in a burst (5 in the code), a window of two ticks, three clicks under way; any number of clicks, disables and changes of permission |
| `handles` | 31,000 | three threads, three handles, one address |
| `settings` | 1,141,000 | two writes by the editor, one crash; two absolute directories and one written with a tilde; any number of calls, failures and changes of permissions |
| `settings_tilde` | a violation | the same |
| `screenshots` | 3,178,000 | two calls of any kind, two displays, two names, one change of displays, one revocation, one deletion, one crash |

`engine` says what `stop()` may answer and when (`AnswerIsTrue`:
"ok" means a complete file, and an error is the true cause, as `join_worker` and
`write_error` choose it: what ended the worker's loop, unless that was a failed
write and ffmpeg exited by itself with a bad status, which is then the answer;
the status of an ffmpeg that somebody killed is never given as a reason), that no child, pipe, placeholder or false index entry is left
(`NothingLeftBehind`), that `stop()` is bounded although the worker may be stuck
for good (`StopBounded`), that a closed file stays as it is
(`ClosedFileIsFinal`), that a detached worker still ends and reaps and a dead
ffmpeg is noticed unless the recording is paused (`WorkerReacts`), and that the
whole implements `RecordingLifecycle`.
The deadlines' order is that of the code: the worker's own waits fit into the
first deadline of `stop()` when they start at once, and do not when a capture
or a write was in the way, so the late answer meets the kill in both orders.

`manager` says that the tray always offers what can be done (`TrayFollows`),
that each recording gets exactly one final signal and two never capture at once
and that the destructor returns only when no thread is left inside Rust
(`SessionsEndOnce`), that each session is an engine's life (`EngineContract`),
that waking up never resumes what the user paused
(`ManualPauseKept`), and that the program is stuck nowhere (`NeverStuck`).  Two
sessions are what it takes for a late result of one to meet the finalization of
the next; a third would meet the same flags.

`hotkeys` says that while a chord is recorded no hotkey is bound, if the user
does not press Save, and that no registration outlives its reference or
contradicts the settings (`BindingsSound`), and that after
a sleep every hotkey works or the user is told (`WorksOrTold`).  Each binding
reads the config again, and a read that fails binds the default chords without a
word, so both properties speak of the chords in force: the saved ones, or the
defaults while the present registrations last (`InForce`; section 6 has what
the user sees of it).  A recovery skipped for the recording of a chord excuses a
handler that stays dead, and nothing else: the registrations must be back.  Two
sleeps let a retry of the first meet the second.

`history` says that no update is lost (`NoLostUpdate`), that thumbnails belong to
entries, that no orphan outlives the next add and that at rest an entry shows
the last image captured to its path (`ThumbsFollow`), and that a
failed save costs no thumbnail (`ThumbOutlivesEntry`).  Three paths over a cap
of two force evictions; three captures let one path be captured again while its
first image is being decoded and another evicted.

`overlay` says that what is shown is this session's own frame without the
overlay in it (`ShowsOwnFrame`), that no region picker opens over a running
recording and the cursor override is balanced (`ModeConsistent`), that work is thrown away only on purpose, by a change of
screens or by a wake (`WorkSurvives`), and that the busy gate reopens although
a grab hangs (`GateRecovers`).  Three numbers give one session that is shown,
one superseded and one hung.

`editor` says that a drag never leaves an impossible region and
that marks - drawn, half drawn, undone or to be redone - stay on their pixels
(`ResizeIsSound`), that steps count without gaps (`StepsCount`), that a saved
image is what was seen (`SavedIsSeen`), and `LinearHistory`.  Three pixels and a
minimum of one reach every clamp: at either screen edge, at the minimum span,
and across the opposite edge; two marks over a history of two reach a full
stack, a truncated future and a relabelling of what was undone.

`stream` says that a frame published between a look and a sleep is not slept
over (`NoMissedFrame`), that polls see the newest frame and none twice
(`NewestOnce`), and that every call returns and the screen is not captured
after the worker let go, even if a start completes late (`NothingHangs`).  Four frames: one shown, one in the slot, one being copied and
one displaced.

`clicks` says that starting and dropping end (`DropReturns`), that afterwards no
thread, tap or undelivered click is left (`NothingAfterDrop`), and that a tap
without permission is given up while isolated timeouts never are
(`TapKeptOrGivenUp`).  Clicks and disables are not counted, so a budget that
clicks refill shows as an endless loop.

`handles` says that no call touches released memory and the registry lists live
handles only (`MemorySafe`), that nothing freed is leaked or left running
(`NothingLost`), and that a query comes back while a stop on the same handle
never ends (`QueriesReturn`).  Three threads are a stop, a free and a query on
one handle; one address makes every reuse collide.

`settings` says that neither a write, a failed write nor a crash leaves an
unreadable file behind, or loses the only copy of one that some load found
unreadable (`FileIsSafe`), that a setting once saved or put in the file by hand
stays there through every later merge (`NoSettingLost`), and that what was only
typed reaches neither the file nor a capture (`UnsavedEditsStayOut`).  A
missing or broken file counts as a reset to the defaults, as `load_from` says.
Until the next load `NoSettingLost` excuses three lapses, because the code makes
them, and `lapses` names each: a file edited between the load and the rename of
a save is overwritten ("race"); a region or a save is merged onto a snapshot
older than an edit, because the file could not be read ("stale"); and Save merges
onto an empty object when it has neither a readable file nor a snapshot
("blind", see section 6; a region is not excused here, since `setLastRegion`
then writes nothing).  Two edits give one
broken file that is healed and one written meanwhile or moved to a second
backup of the same second.

`screenshots` says that a picture is of the display that was asked for and of
its own call (`ShowsAskedDisplay`), that the system's dialogs do not pile up
(`PromptsBounded`: at most one per call and one for the request, although a
recording asks twice, and a second one only for a recording that a revocation
crossed), that no file is overwritten or removed under its owner
(`NothingOverwritten`), and that a result is true of the disk (`ResultsTrue`).
Two calls meet in a name, in the latch and in a late answer; what they do is
chosen per call, so a screenshot meets a recording, a save of the overlay's
picture or another screenshot.  Two displays and one change let the index mean
another display, or none, at each of the two attempts.

## 5. Fairness and deadlock

- `engine`: the thread that called `stop()` runs, the clock advances, a killed
  process goes away, and a thread in a poll loop for a process's exit is
  scheduled.  Nothing is assumed of the capture calls, of ffmpeg's reading or
  of the rest of the worker, so boundedness does not lean on them.  The
  liveness property states its further assumption itself (`WorkerRuns`):
  the worker is scheduled and capture calls return, as they do under the
  deadlines of `StreamCapture`.
- `manager`: event loop, timers and threads run; `recordStop` may never answer.
- `overlay`: posted events and watchdog timers run; grabs and users promise
  nothing.
- `stream`: threads run and deadlines pass (weakly fair); ScreenCaptureKit
  answers unless it is wedged, which it may become at any time.
- `handles`: a thread inside a call proceeds, with strong fairness because a
  mutex is taken again and again by others and granted in the long run.  No
  recording and no tap is assumed to end.
- `clicks`: both threads and the owner's calls run, callbacks return, and macOS
  disables a tap it does not permit; within a tick of half a minute they do so
  (the window of the code is a minute).
- `hotkeys`, `history`, `editor`, `settings` and `screenshots` have safety
  properties only and no fairness.

Deadlock is checked everywhere but in `hotkeys` (the program quits), `manager`
(the process is gone), `clicks` (the handle is gone), `handles` (all handles
were made and freed, and calls that the registry rejects are no steps) and
`screenshots` (all calls have returned).

## 6. Disagreements between the code and what is said of it

- `settings_tilde`.  `config.rs:305-308` says that a `~`-prefixed directory is
  expanded because a relative path "would resolve against the app's
  unpredictable CWD".  The store does that on the way to the disk, but the
  window keeps the text of its field as the saved directory
  (`PreferencesWindow.cpp:1611`), and `saveImage` (`main.cpp:438-446`) writes
  screenshots there until the window loads the file again.  Recordings read the
  file and go elsewhere.

Five more were found by runs that can be repeated by hand; each configuration
checks one property and ends in a counterexample.

- `tlc -config RecordingUnkillable.cfg RecordingEngine.tla` (`StopBounded`, with a
  kill that need not take effect).  `ffmpeg.rs:341-343` says the child's lock "is
  only held for each non-blocking `try_wait`, so `stop()` can still kill the child
  concurrently", but lines 354-356 (and `Drop`, 444-455) hold it across `kill()`
  and a blocking `wait()`.  If a killed ffmpeg lingers in the kernel, `stop()`
  waits for that lock past both of its deadlines.  With a kill that takes
  effect `StopBounded` holds, and is proved.
- `tlc -config HotkeysLostOnWake.cfg MCGlobalHotkeys.tla`
  (`RecoversFromEverySleep`).  A wake while Preferences records a chord returns
  early (`main.cpp:338`) and nothing reinstalls the handler afterwards, although
  the comment at `main.cpp:292-294` calls that the only way to make hotkeys
  dispatch again.  They stay dead, unreported, until the next sleep or restart.
- `tlc -config HotkeysSaveMidCapture.cfg MCGlobalHotkeys.tla`
  (`CaptureOwnsTheKeys`).  Save during the recording of a chord binds all chords
  at once (`main.cpp:367`), although `main.cpp:713-716` says they must be released
  meanwhile.
- `tlc -config HotkeysFallBack.cfg MCGlobalHotkeys.tla` (`BoundIsSaved`).
  `main.cpp:231-233` says that every chord is registered "from the shared config",
  but the `shortcuts::Snapshot` behind it (`main.cpp:243`, `Shortcuts.cpp:24-41`)
  takes a config that cannot be read for one without chords and answers with the
  defaults.  After a Save, a recording of a chord or a wake whose read fails the
  default chords are bound in place of the saved ones, and nobody is told.
- `tlc -config ConfigBlindSave.cfg ConfigStore.tla` (`SavesKeepTheRest`).
  `PreferencesWindow.cpp:1637-1640` says a save falls back to "the last config we
  successfully loaded/saved rather than an empty object, which would drop every
  Rust-only field".  If config.json could not be read when the window was made
  and cannot be read at Save either, that last config is the empty object, and
  the save replaces the file by the window's fields alone.  `setLastRegion` has
  a guard against just that (`:1731-1736`), and `saveConfig` has none.

Noted while modelling:

- `RecordingManager.h:71` and `:120` differ on the watchdog (30 s in the comment,
  40 s in the code).  The destructor's own 30 s are less than the engine's worst
  case of 25 s + 5 s and indexing, so the abort it falls back to can happen with
  an engine that keeps its promise, which the model includes.
- The documentation of `snapforge_record_free_handle` says an unstopped recording
  is stopped by the free, which is so unless a query holds the last reference,
  and then the query stops it (`QueriesReturn` names the exception).
- `PreferencesWindow.cpp:1621-1622` and the comment on merging at `:1726-1729`
  speak of a load that fails for a missing or broken file, onto whose last good
  snapshot a save merges.  `load_from` answers with the defaults in both cases
  and fails only when the file exists and cannot be read, so after a break the
  merge is onto the defaults.  `NoSettingLost` therefore counts a missing or
  broken file as a reset.
- A region that is committed puts only the region into the snapshot, so the
  snapshot does not learn of fields that an editor had added to the file
  meanwhile; they are lost only if the next read fails too (the lapse "stale").
- `load_from` reads without the lock that `self_heal` takes, and `self_heal` moves
  aside whatever is in place by then (`config.rs:260`): a good file an editor has
  just written may be the one in the backup.  It is not lost.
- `macos.rs:688-690` says that the second source of a recording "targets the same
  display"; it resolves the index again, so after a change of displays in
  between it may target another one.  `ShowsAskedDisplay` is about screenshots.
- `capture_fullscreen` leaves the main thread free only in name: it starts a
  thread and joins it, so the interface waits, at most for both deadlines.

## 7. What is proved

All proofs are for any value of the constants, under the `ASSUME` of the module
they are about.  These only say that bounds are natural numbers (deadlines
positive), that the model values differ from one another, that every action's
default chord is usable and the defaults differ, that null is no address, that
there are displays and at least one name, that the default and the home
directory are absolute paths and a tilde is none, and that the overlay is wider
than the least region and can undo at least one step.

| theorem | says | rests on |
|---|---|---|
| `TypeCorrect`, `AnswerCanBeBelieved`, `OkIsComplete`, `TrueCauseReported`, `AlwaysReaped`, `TidyOutput`, `CleanEnd`, `StoppedForGood`, `ClosedForGood`, `EngineImplementsLifecycle` | the safety of `engine` and the refinement | `IInv`: types; a recording not begun has no worker; what each place in the worker says about child, pipe and result; what each answer of `stop()` says about the worker; a killed child never becomes a good one, and `killers` names who killed it; after a failed write ffmpeg cannot end with success any more, so its exit gives the reason (`BrokenPipeInv`) |
| `BoundedStop` | if kills take effect, `stop()` is bounded | also `ClockInv`: at each place of the owner, how far the total may be ahead of the clock of the deadline it is in, and that the child's lock is not held past a deadline |
| `TrayAlwaysFollows`, `EverySessionEndsOnce`, `UserPauseKept`, `ManagerKeepsContract` | the safety of `manager`, and that it uses each engine as `RecordingLifecycle` allows | `ManagerInv`: who owns a session (the handle, then one stop job); no two sessions share a generation (`Generations`); a final signal is missing exactly while the session records or its generation is the awaited one (`Accounted`); a job that has not called `recordStop` yet belongs to the finalization in progress (`Created`) |
| `IndexImplementsHistory` | the index loses nothing | only the lock's holder is between load and unlock (`Exclusive`), so the copy it loaded is not stale (`Current`) |
| `ThumbsAlwaysFollow`, `ThumbsOutliveEntries` | thumbnails follow the index; a failed save costs none | `ThumbInv`: a stray thumbnail is one of a save not yet unlocked (`Swept`); an outdated thumbnail, or an outdated image about to be installed, has a job of its path queued or about to be (`Fresh`) |
| `WithoutFacts` | what `retain` leaves of an index of any length is all of it but the path | a minimal counterexample among the prefixes |
| `Bindings` (`NoStrayHotkey`, `RecorderHearsEveryChord`) | registrations follow the settings, or the defaults if they could not be read; recording a chord hears it | every registration is under the reference that can release it, so a release leaves nothing (`NothingLeft`) |
| `RecoveryTold` | after the recovery from a sleep a chord in force is registered and dispatched, or the user was told | the handler is told about also while a chord is recorded, when its bindings are not (`Recovery`), since the end of the recording only rebinds |
| `FileStaysSafe`, `SettingsStaySaved`, `TypingIsNoSave` | the safety of `settings` | `StoreInv`: the backups fill the first names and hold ever later writes, so there is a free name for every file that is moved aside (`BackupsTight`); a file found unreadable is in place only while the directory is locked (`Copies`); what each place of a call is about to write keeps the settings, unless it was merged onto something less (`basis`), and was saved (`Settings`, `Pressed`) |
| `OwnFrame`, `Mode` (`PickerWhenIdle`, `Cursor`), `Work` | the safety of `overlay` | of all grabs and answers at most one is of the present number, only while the gate is closed, and no answer is behind a posted activation (`Numbered`, `Pending`, `Entering`) |
| `ResizesAreSound`, `StepsAlwaysCount`, `SavesWhatIsSeen` | the safety of `editor` | `EditorInv`: every drawing there is, present, undone or to be redone, has its marks in place and its steps numbered from 1 (`Drawings`), since undo and redo only choose among them and a resize moves them all |
| `EditorKeepsHistory` | the editor implements `EditHistory` | `LineOf`, the line the two stacks and the drawing between them make: undo and redo leave it as it is and move the place on it (`LineMoves`), a resize changes no picture on it (`LineSame`), and an edit cuts it off, adds one and drops the oldest beyond the depth (`LineEdited`) |
| `FirstFrameNotMissed`, `FramesInOrder`, `TwoBuffersServe` | the mailbox | the slot is locked from the look to the sleep; where both buffers are at each step of a delivery |
| `NothingOutlivesHandle` | the safety of `clicks` | who can send holds a sender, so a forwarder that ended saw the last click (`Senders`, `Forwarding`); what the owner has joined (`Joined`) |
| `NoUseAfterFree`, `NothingLeaks`, `StoppedOnce` | the handles | who holds a reference and why (`Held`), one thread frees (`OneFrees`), one ends what it stands for (`OneEnds`), memory is there exactly while somebody holds it or is dropping it |
| `AskedDisplay`, `FilesSafe`, `TrueResults` | the safety of `screenshots`, but for the number of dialogs | a call has a picture only between its first attempt and its use (`ImageInv`); what the place of a call says about its file (`Phase`); a name has one owner and a call one name (`Owners`); an indexed file's call is over |
| `PromptsStayBounded` | the system's dialogs do not pile up | `AskInv`: dialogs are counted by the calls that may have asked once and those that may have asked twice (`Counted`); without the grant a second attempt finds the latch set unless a revocation crossed the recording, which it did for every recording while somebody is about to clear the latch on a grant that is gone (`Latched`) |

None of the properties is inductive alone.  That `stop()` answers "ok" only for
a complete file, for instance, depends on what the worker knew when it stored
its result, several steps and one join earlier; `WorkerInv` carries that
knowledge through each place, and `AnswerInv` over the join.  Each strengthened
invariant was first checked on the instance of its component's run.

The arguments differ in kind.  In `HandleRegistryProofs` a thread that drops a
reference must know that it is the last, which is a statement about all other
threads, so there is one lemma for each way to let go of a reference: others
remain, or it is the last and the work still runs, or it is the last and the
work has ended.  `ScreenshotProofs` has the opposite shape: one lemma says what
it takes for a step of one call to leave every other call's part of the
invariant alone (`OneCallMoves`), and each action is shown to be such a step.
`OverlayProofs` is about sequences: its editor has lemmas about what each
operation makes of one drawing, and others about what each makes of the stacks
of drawings, and an action is a composition of the two.

The provers at hand cannot use the library's induction theorems, which take an
operator.  Where an argument is by induction over a sequence, its least
counterexample is taken instead: a set of naturals that is not empty has a least
element (`LeastNumber`, from `WFMin`), which is a first-order fact.  `retain` is
for that reason a recursive function of the prefix, as its loop is, and not a
fold.

## 8. What is only model-checked, what is left out

Only model-checked: liveness (`WorkerReacts`, `NeverStuck`, `GateRecovers`,
`NothingHangs`, `QueriesReturn`, `DropReturns`, `TapKeptOrGivenUp`).  It needs
`ENABLED` under fairness, which the provers do not handle.  Every other property
of a run that passes is a theorem: every invariant, every action property, and
the refinements and the contract of section 3.  The bounds of section 4 therefore matter to liveness
only; for safety the runs are what found the invariants and what the mutations
of `PROJECT.json` are tried on.

Left out, by part:

- engine: a panic of the worker (caught at the join), discovery of ffmpeg and
  its arguments, pixels, the legacy capture loop (same control).
- stream capture: pixels and strides, configuration, mutex poisoning.
- handles: the registry of image buffers, and functions that only convert.
- click tap: the list of the last 64 clicks a recording polls, coordinates and
  buttons, the tap a recording opens for itself (the same without a forwarder).
- manager: elapsed time, preferences read by a start, texts, clipboard.
- hotkeys: what a fired hotkey does to windows, parsing of chords, validation.
- history: temporary files a crashed worker leaves (swept after an hour), a
  failing deletion of a thumbnail (ignored by the code), timestamps, the check
  of incomplete files.
- overlay: geometry, painting, the force-quit chord, AppKit hiding the panel
  behind Qt's back.
- editor: the second axis (alike), shape, colour and width, tool selection (so not
  a tool key pressed in the middle of a drag, which hides the mark being drawn,
  `AnnotationCanvas.cpp:263-271`).
- configuration: the fields one by one (the save directory stands for those of
  the window, `extra` for those it does not know); an empty directory; directory
  permissions that change in the middle of a call; `CONFIG_LOCK`, since all
  calls come from the GUI thread, and a second instance of the program, which
  writes as the editor does.
- screen capture: pixel formats, colour, the geometry of a region; systems
  without ScreenCaptureKit, which go straight to the fallback; platforms other
  than macOS, which have neither permission nor deadlines.
- screenshots: requests that are malformed (refused before anything is touched),
  the sizes `save_prerendered` rejects, the bytes an encoder makes; a picture
  that is encoded is written whole or not at all as far as a reader of the
  result is concerned, since a failed write removes the placeholder.
- not modelled at all, with reasons in `PROJECT.json`: frame clock, mp4 check,
  history window (planned); renderer, logger, shortcut parsing, packaging and
  the like (input and output, or no state of their own).

## 9. Plan

Done: the engine with its promise and its manager, the parts above and below
them (hotkeys, overlay, editor, history, stream, handles, click tap), the files
they write (configuration, screenshots), and the proofs of all their safety
properties (section 7).  Ahead,
most important first:

1. `FrameClock` (frames due after a pause or a slow write) and `Mp4Check` (the
   walk over boxes, a recursive function over bounded files, against a
   declarative definition); `HistoryWindow` with its cache of failed thumbnails.
2. Proofs: the deadlock freedom of the lock orders (`handles`, the engine's child
   mutex) as a safety property, a variant function for the bounded loops that
   liveness rests on.
3. Composition: engine and stream capture share the deadlines of the first
   frame; the manager's stop job and the handle registry share a handle; a
   recording's file goes from `Screenshot` to `RecordingEngine`.

The number of runs is kept small: where a new part comes in, a weaker property
or a run whose finding is settled gives way.

--------------------------- MODULE GlobalHotkeys ----------------------------
(***************************************************************************)
(* The system-wide hotkeys: the Carbon handler and the chord registrations *)
(* of qt/src/app/main.cpp, the Preferences window that records new chords  *)
(* and saves them, and the sleep and wake of the machine that may drop     *)
(* either half.  All handlers run on the GUI thread, one action each;      *)
(* the signals hotkeyCaptureActive and configSaved are direct calls.       *)
(***************************************************************************)
EXTENDS Integers, FiniteSets, Functions

CONSTANTS
  Actions,          \* shortcuts::kGlobalActions
  Chords,           \* chords a user may type
  Usable,           \* those isValidGlobalChord accepts
  Taken,            \* those another application owns
  Default,          \* the chords of a fresh config
  NoChord, NoRow,
  MaxSleeps         \* bound: times the machine sleeps

ASSUME HotkeyAssumption ==
  /\ Usable \subseteq Chords /\ Taken \subseteq Chords
  /\ NoChord \notin Chords /\ NoRow \notin Actions
  /\ Default \in [Actions -> Usable] /\ IsInjective(Default)
  /\ MaxSleeps \in Nat

VARIABLES
  app,            \* "starting", "running", "quit"
  config,         \* the saved chord of each action
  rows,           \* the chord each Preferences row shows
  visible,        \* the Preferences window is shown
  row,            \* m_recordingRowIndex
  captureActive,  \* g_hotkeyCaptureActive
  hotkeys,        \* g_hotkeys: the chord each reference was registered for
  live,           \* registrations the system holds: <<action, chord>>
  handler,        \* g_hotkeyHandler: "none", "live", or "dropped" by the OS
  retries,        \* 750 ms timers pending
  machine,        \* "awake", "asleep", "woken": didWake not delivered yet
  settled,        \* the window server accepts every registration again
  sleeps,         \* times the machine has slept
  told,           \* history: what the user has been told does not work
  fellBack,       \* history: the chords bound are the defaults, because the
                  \* config could not be read when they were bound
  saved,          \* history: Save was pressed during the present capture
  skipped         \* history: a recovery was skipped for a capture, and none
                  \* has been made since

prefs == <<config, rows, visible, row, captureActive>>
bound == <<hotkeys, live, handler, told, fellBack>>
past  == <<saved, skipped>>
host  == <<machine, settled, sleeps>>
vars  == <<app, prefs, bound, retries, host, past>>

Handler == "global hotkey handler"
Capturing == row # NoRow
Up == app = "running" /\ machine # "asleep"

Init ==
  /\ app = "starting"
  /\ config = Default /\ rows = Default /\ visible = FALSE
  /\ row = NoRow /\ captureActive = FALSE
  /\ hotkeys = [a \in Actions |-> NoChord] /\ live = {} /\ handler = "none"
  /\ retries = 0 /\ machine = "awake" /\ settled = TRUE /\ sleeps = 0
  /\ told = {} /\ fellBack = FALSE /\ saved = FALSE /\ skipped = FALSE

-----------------------------------------------------------------------------
(* unregisterGlobalHotkeys: the references are released and forgotten.     *)
Released == {r \in live : hotkeys[r[1]] # r[2]}

unregisterGlobalHotkeys ==
  /\ hotkeys' = [a \in Actions |-> NoChord]
  /\ live' = Released
  /\ fellBack' = FALSE

(* shortcuts::Snapshot: the saved chords, or without a word the default    *)
(* ones if the config cannot be read.                                      *)
Snapshot(cfg, unreadable) == IF unreadable THEN Default ELSE cfg

(* What the system may refuse of the chords cfg: those of other            *)
(* applications or still held by us, and more while it settles.            *)
Refusals(cfg) ==
  LET refused == {a \in Actions :
                    \/ cfg[a] \notin Usable \/ cfg[a] \in Taken
                    \/ \E r \in Released : r[2] = cfg[a]}
  IN {failed \in SUBSET Actions : refused \subseteq failed /\ (settled => failed = refused)}

Bind(chords, failed) ==
  /\ failed \in Refusals(chords)
  /\ hotkeys' = [a \in Actions |-> IF a \in failed THEN NoChord ELSE chords[a]]
  /\ live' = Released \cup {<<a, chords[a]>> : a \in Actions \ failed}

(* Mutant: the chords bound are those of the open window's rows.           *)
registerRows(cfg, failed) ==
  /\ Bind(rows, failed)
  /\ fellBack' = FALSE

(* unregisterGlobalHotkeys, then registerAllChords.                        *)
registerAllChords(cfg, failed) ==
  \E unreadable \in BOOLEAN :
    /\ Bind(Snapshot(cfg, unreadable), failed)
    /\ fellBack' = unreadable

(* installAndRegisterGlobalHotkeys: remove the handler, install it anew,   *)
(* then bind; without a handler nothing is bound.                          *)
installAndRegister(failed) ==
  \/ /\ handler' = "live"
     /\ registerAllChords(config, failed)
  \/ /\ ~settled
     /\ failed = {Handler}
     /\ handler' = "none"
     /\ unregisterGlobalHotkeys

(* Release, bind what cfg says, and report; the handler stays as it is.    *)
Rebind(cfg) ==
  \E failed \in SUBSET Actions :
    /\ registerAllChords(cfg, failed)
    /\ told' = (told \cap {Handler}) \cup failed
    /\ UNCHANGED handler

Failures == SUBSET Actions \cup {{Handler}}

registerGlobalHotkey ==
  /\ app = "starting" /\ app' = "running"
  /\ \E failed \in Failures : installAndRegister(failed) /\ told' = failed
  /\ UNCHANGED <<prefs, retries, host, past>>

(* Mutant: a wake takes the chords back although one is being recorded.    *)
reregisterAlways ==
  /\ Up /\ machine = "woken" /\ machine' = "awake"
  /\ \E failed \in Failures :
       /\ installAndRegister(failed)
       /\ IF failed = {}
          THEN told' = {} /\ UNCHANGED retries
          ELSE retries' = retries + 1 /\ UNCHANGED told
  /\ UNCHANGED <<app, prefs, settled, sleeps, past>>

(* A wake is ignored while a chord is being recorded; a first failure is   *)
(* not reported but retried once.                                          *)
reregisterGlobalHotkeys ==
  /\ Up /\ machine = "woken" /\ machine' = "awake"
  /\ IF captureActive
     THEN UNCHANGED <<bound, retries>>
     ELSE \E failed \in Failures :
            /\ installAndRegister(failed)
            /\ IF failed = {}
               THEN told' = {} /\ UNCHANGED retries
               ELSE retries' = retries + 1 /\ UNCHANGED told
  /\ skipped' = captureActive
  /\ UNCHANGED <<app, prefs, settled, sleeps, saved>>

(* Mutant: the second failure is logged only.                              *)
RetrySilently ==
  /\ Up /\ retries > 0
  /\ retries' = retries - 1
  /\ IF captureActive THEN UNCHANGED bound
     ELSE \E failed \in Failures : installAndRegister(failed) /\ UNCHANGED told
  /\ skipped' = captureActive
  /\ UNCHANGED <<app, prefs, host, saved>>

Retry ==
  /\ Up /\ retries > 0
  /\ retries' = retries - 1
  /\ IF captureActive THEN UNCHANGED bound
     ELSE \E failed \in Failures : installAndRegister(failed) /\ told' = failed
  /\ skipped' = captureActive
  /\ UNCHANGED <<app, prefs, host, saved>>

-----------------------------------------------------------------------------
(* The Preferences window.                                                 *)

(* Showing it reloads the saved chords, unless the load fails.             *)
ShowWindow ==
  /\ Up /\ ~visible
  /\ visible' = TRUE
  /\ rows' \in {rows, config}
  /\ UNCHANGED <<app, config, row, captureActive, bound, retries, host, past>>

(* hotkeyCaptureActive(true), after the (false) of a row given up for it.  *)
startRecording(r) ==
  /\ Up /\ visible /\ row # r
  /\ row' = r
  /\ captureActive' = TRUE
  /\ unregisterGlobalHotkeys
  /\ saved' = FALSE
  /\ told' \in IF Capturing
               THEN {(told \cap {Handler}) \cup failed :
                       failed \in Refusals(config) \cup Refusals(Default)}
               ELSE {told}
  /\ UNCHANGED <<app, config, rows, visible, handler, retries, host, skipped>>

(* stopRecording: hotkeyCaptureActive(false) binds the saved chords.       *)
stopRecording(newRows, shown) ==
  /\ Up /\ Capturing
  /\ rows' = newRows
  /\ visible' = shown
  /\ row' = NoRow
  /\ captureActive' = FALSE
  /\ Rebind(config)
  /\ saved' = FALSE
  /\ UNCHANGED <<app, config, retries, host, skipped>>

(* Escape, the button again, or a rebuild of the window for a new theme.   *)
CancelRecording == stopRecording(rows, TRUE)

(* A chord reaches the recorder unless a live hotkey swallows it.          *)
Fires(c) == handler = "live" /\ \E a \in Actions : <<a, c>> \in live

RecordChord ==
  \E c \in Chords : ~Fires(c) /\ stopRecording([rows EXCEPT ![row] = c], TRUE)

HideWindow ==
  /\ Up /\ visible
  /\ IF Capturing THEN stopRecording(rows, FALSE)
     ELSE /\ visible' = FALSE
          /\ UNCHANGED <<app, config, rows, row, captureActive, bound, retries, host, past>>

ResetAll ==
  /\ Up /\ visible
  /\ rows' = Default
  /\ UNCHANGED <<app, config, visible, row, captureActive, bound, retries, host, past>>

(* Mutant: Save does not bind the new chords.                              *)
onSaveUnbound ==
  /\ Up /\ visible
  /\ \A a \in Actions : rows[a] \in Usable
  /\ IsInjective(rows)
  /\ config' = rows
  /\ UNCHANGED <<app, rows, visible, row, captureActive, bound, retries, host, past>>

(* onSave with valid rows: configSaved calls reloadGlobalHotkeys.          *)
onSave ==
  /\ Up /\ visible
  /\ \A a \in Actions : rows[a] \in Usable
  /\ IsInjective(rows)
  /\ config' = rows
  /\ Rebind(rows)
  /\ saved' = Capturing
  /\ UNCHANGED <<app, rows, visible, row, captureActive, retries, host, skipped>>

(* aboutToQuit.                                                            *)
AboutToQuit ==
  /\ Up
  /\ app' = "quit"
  /\ unregisterGlobalHotkeys
  /\ handler' = "none"
  /\ UNCHANGED <<prefs, retries, host, past, told>>

-----------------------------------------------------------------------------
(* The machine.  It may lose the handler and any registration while it     *)
(* sleeps, and takes a while to settle.                                    *)
Sleep ==
  /\ Up /\ sleeps < MaxSleeps
  /\ machine' = "asleep"
  /\ sleeps' = sleeps + 1
  /\ UNCHANGED <<app, prefs, bound, retries, settled, past>>

Wake ==
  /\ machine = "asleep"
  /\ machine' = "woken"
  /\ settled' = FALSE
  /\ handler' \in {handler, IF handler = "live" THEN "dropped" ELSE handler}
  /\ live' \in SUBSET live
  /\ UNCHANGED <<app, prefs, retries, sleeps, hotkeys, told, fellBack, past>>

Settle ==
  /\ machine # "asleep" /\ ~settled
  /\ settled' = TRUE
  /\ UNCHANGED <<app, prefs, bound, retries, machine, sleeps, past>>

Next ==
  \/ registerGlobalHotkey \/ reregisterGlobalHotkeys \/ Retry
  \/ ShowWindow \/ HideWindow \/ ResetAll \/ onSave \/ AboutToQuit
  \/ \E r \in Actions : startRecording(r)
  \/ CancelRecording \/ RecordChord
  \/ Sleep \/ Wake \/ Settle

Spec == Init /\ [][Next]_vars
-----------------------------------------------------------------------------
(* Properties.                                                             *)

(* Types.                                                                  *)
TypeOK ==
  /\ app \in {"starting", "running", "quit"}
  /\ config \in [Actions -> Chords] /\ rows \in [Actions -> Chords]
  /\ visible \in BOOLEAN /\ captureActive \in BOOLEAN
  /\ row \in Actions \cup {NoRow}
  /\ hotkeys \in [Actions -> Chords \cup {NoChord}]
  /\ live \subseteq Actions \X Chords
  /\ handler \in {"none", "live", "dropped"}
  /\ retries \in 0..MaxSleeps /\ sleeps \in 0..MaxSleeps
  /\ machine \in {"awake", "asleep", "woken"} /\ settled \in BOOLEAN
  /\ fellBack \in BOOLEAN /\ saved \in BOOLEAN /\ skipped \in BOOLEAN
  /\ told \subseteq Actions \cup {Handler}

(* A chord is recorded only in a window that is shown, and meanwhile no    *)
(* hotkey is bound, whatever wakes, retries and other rows do in between - *)
(* unless the user presses Save before the chord.                          *)
ReleasedWhileCapturing ==
  /\ captureActive <=> Capturing
  /\ Capturing => visible
  /\ Capturing /\ ~saved => live = {}

(* main.cpp: "While Preferences is recording a new chord, the live Carbon  *)
(* hotkeys must be released - otherwise pressing an already-bound chord    *)
(* fires the action instead of reaching the recorder."                     *)
CaptureOwnsTheKeys == Capturing => live = {}

(* The chord of an action while the present registrations last: the saved  *)
(* one, or the default one if the config was unreadable when they were     *)
(* made.                                                                   *)
InForce(a) == IF fellBack THEN Default[a] ELSE config[a]

(* No registration outlives its reference, and no stale chord fires: after *)
(* any sequence of saves, captures, wakes and failed config reads each     *)
(* live chord is the saved one of its action, or the default one of its    *)
(* action if the config could not be read when it was bound.               *)
BoundFollowsConfig ==
  \A r \in live : hotkeys[r[1]] = r[2] /\ (app = "running" => InForce(r[1]) = r[2])

(* Only chords in force are bound, and none while a chord is recorded.     *)
BindingsSound == ReleasedWhileCapturing /\ BoundFollowsConfig

(* main.cpp: "Register every global chord from the shared config" and      *)
(* "Re-read chords from config and rebind ... so the live global shortcuts *)
(* follow": what is bound is what is saved, also when a read fails.        *)
BoundIsSaved == app = "running" => \A r \in live : config[r[1]] = r[2]

AtRest == app = "running" /\ machine = "awake" /\ retries = 0 /\ ~Capturing

Told(a) == a \in told \/ Handler \in told

(* When the recovery from a sleep is over and no chord is being recorded,  *)
(* every action's chord in force is registered and dispatched, or the user *)
(* has been told that it is not.  If a recovery was skipped because a      *)
(* chord was being recorded, the registrations are there again all the     *)
(* same; only the handler may be dead.                                     *)
WorksOrTold ==
  AtRest => \A a \in Actions :
              \/ <<a, InForce(a)>> \in live /\ (handler = "live" \/ skipped)
              \/ Told(a)

(* main.cpp: "after sleep macOS can silently drop it, and reinstalling is  *)
(* the only way to make hotkeys dispatch again" - so also when a chord was *)
(* being recorded at the wake.                                             *)
RecoversFromEverySleep ==
  AtRest => \A a \in Actions :
              (<<a, InForce(a)>> \in live /\ handler = "live") \/ Told(a)
=============================================================================

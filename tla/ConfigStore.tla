---------------------------- MODULE ConfigStore ----------------------------
(***************************************************************************)
(* config.json and its two writers: the Rust store (load with self-heal,   *)
(* normalisation, atomic save) driven from the GUI thread by the           *)
(* preferences window, and a text editor, with which a user repairs or     *)
(* breaks the file.  The application may crash between any two steps.      *)
(*                                                                         *)
(* Settings are reduced to the save directory (every field of the window   *)
(* travels as it does), the last region, and the fields the window does    *)
(* not know, carried in the flattened map.                                 *)
(***************************************************************************)
EXTENDS Naturals, FiniteSets

CONSTANTS
  Absolute,      \* directories given as absolute paths
  DefaultDir,    \* the directory used when none is configured
  Tilde,         \* a directory as users type it, "~/..."
  Home,          \* what Tilde expands to
  NoConfig,      \* no configuration: a null from the store, an empty object
  MaxEdits,      \* bound: writes by the editor
  MaxCrashes     \* bound: crashes of the application

ASSUME DirsAssumption == {DefaultDir, Home} \subseteq Absolute /\ Tilde \notin Absolute
ASSUME NoConfigAssumption == NoConfig \notin [dir: Absolute \cup {Tilde}, region: BOOLEAN, extra: BOOLEAN]
ASSUME BoundsAssumption == MaxEdits \in Nat /\ MaxCrashes \in Nat

Typed == Absolute \cup {Tilde}
Configs == [dir: Typed, region: BOOLEAN, extra: BOOLEAN]
Defaults == [dir |-> DefaultDir, region |-> FALSE, extra |-> FALSE]
Normal(c) == [c EXCEPT !.dir = IF @ = Tilde THEN Home ELSE @]

VARIABLES
  file,      \* config.json: its kind, which editor write it is (0: the app's), its value
  backups,   \* .bak-<ts>, .bak-<ts>-1, ...: the editor writes moved aside in one second
  locked,    \* the directory refuses renames and new files
  typed,     \* the directory in the preferences window's field
  savedDir,  \* m_saved: what the getters return
  snapshot,  \* m_savedJson
  region,    \* m_lastRegion holds a region
  call,      \* the call of the store under way on the GUI thread
  pc,        \* where it is
  obj,       \* the configuration it read or is about to write
  basis,     \* history: what it was merged onto, see Basis
  edits, crashes,
  pressed,   \* history: directories somebody saved, as typed and as normalised
  want,      \* history: the settings the file should hold
  lapses,    \* history: why the file may lack a setting, see NoSettingLost
  judged,    \* history: editor writes that the last load to open them found unreadable
  replaced   \* history: editor writes that the editor overwrote or deleted

fileVars == <<file, backups, locked>>
appVars == <<typed, savedDir, snapshot, region>>
callVars == <<call, pc, obj, basis>>
bounds == <<edits, crashes>>
history == <<pressed, want, lapses, judged, replaced>>
storeVars == <<fileVars, appVars, callVars, bounds, history>>

Missing == [kind |-> "missing", edit |-> 0, cfg |-> NoConfig]
Bad(n) == [kind |-> "bad", edit |-> n, cfg |-> NoConfig]
Good(n, c) == [kind |-> "good", edit |-> n, cfg |-> c]
Keeps(c, w) == Normal(c).dir = w.dir /\ c.extra = w.extra /\ (w.region => c.region)

\* Shapes of the variables.
StoreTypeOK ==
  /\ file \in [kind: {"missing", "bad", "good"}, edit: 0 .. MaxEdits, cfg: Configs \cup {NoConfig}]
  /\ backups \in [0 .. MaxEdits -> 0 .. MaxEdits]
  /\ locked \in BOOLEAN /\ region \in BOOLEAN
  /\ basis \in {"sound", "stale", "blind"} /\ lapses \subseteq {"race", "stale", "blind"}
  /\ typed \in Typed /\ savedDir \in Typed /\ pressed \subseteq Typed
  /\ snapshot \in Configs \cup {NoConfig} /\ obj \in Configs \cup {NoConfig}
  /\ call \in {"none", "show", "save", "region", "peek"}
  /\ pc \in {"idle", "load", "heal", "rewrite", "loaded", "write", "rename", "down"}
  /\ edits \in 0 .. MaxEdits /\ crashes \in 0 .. MaxCrashes
  /\ want \in Configs
  /\ judged \subseteq 1 .. MaxEdits /\ replaced \subseteq 0 .. MaxEdits

\* The constructor of the window, with no file yet, loads.
StoreInit ==
  /\ file = Missing /\ backups = [i \in 0 .. MaxEdits |-> 0] /\ locked = FALSE
  /\ typed = DefaultDir /\ savedDir = DefaultDir /\ snapshot = NoConfig /\ region = FALSE
  /\ call = "show" /\ pc = "load" /\ obj = NoConfig /\ basis = "sound"
  /\ edits = 0 /\ crashes = 0
  /\ pressed = {DefaultDir} /\ want = Defaults /\ lapses = {}
  /\ judged = {} /\ replaced = {}

-----------------------------------------------------------------------------
(* The store. *)

\* load_from: a missing file yields the defaults.
LoadMissing ==
  /\ pc = "load" /\ file.kind = "missing"
  /\ obj' = Defaults /\ pc' = "loaded"
  /\ want' = Defaults /\ lapses' = {}
  /\ UNCHANGED <<fileVars, appVars, call, basis, bounds, pressed, judged, replaced>>

\* load_from: a readable file is normalised.  (It also settles what a lapse left.)
LoadGood ==
  /\ pc = "load" /\ file.kind = "good"
  /\ obj' = Normal(file.cfg) /\ pc' = "loaded"
  /\ want' = (IF lapses # {} THEN Normal(file.cfg) ELSE want) /\ lapses' = {}
  /\ UNCHANGED <<fileVars, appVars, call, basis, bounds, pressed, judged, replaced>>

\* load_from: oversized, not UTF-8 or unparseable; self_heal follows.
LoadBad ==
  /\ pc = "load" /\ file.kind = "bad"
  /\ pc' = "heal" /\ judged' = judged \cup {file.edit}
  /\ want' = Defaults /\ lapses' = {}
  /\ UNCHANGED <<fileVars, appVars, call, basis, obj, bounds, pressed, replaced>>

\* load_from: the file exists and cannot be read; the caller gets null.
LoadFails ==
  /\ pc = "load" /\ file.kind # "missing"
  /\ obj' = NoConfig /\ pc' = "loaded"
  /\ judged' = judged \ {file.edit}
  /\ UNCHANGED <<fileVars, appVars, call, basis, bounds, pressed, want, lapses, replaced>>

\* backup_file: the first name not taken yet.
ClobberingName == 0
FreeName == CHOOSE i \in DOMAIN backups : backups[i] = 0 /\ \A j \in 0 .. i - 1 : backups[j] # 0

\* self_heal: whatever is in place by now is renamed aside ...
Backup ==
  /\ pc = "heal" /\ ~locked /\ file.kind # "missing"
  /\ backups' = [backups EXCEPT ![FreeName] = file.edit]
  /\ file' = Missing /\ pc' = "rewrite"
  /\ UNCHANGED <<locked, appVars, call, basis, obj, bounds, history>>

HealsAnyway ==
  /\ pc = "heal"
  /\ file' = Good(0, Defaults)
  /\ obj' = Defaults /\ pc' = "loaded"
  /\ UNCHANGED <<backups, locked, appVars, call, basis, bounds, history>>

\* ... or cannot be, and stays where it is ...
BackupFails ==
  /\ pc = "heal" /\ (locked \/ file.kind = "missing")
  /\ obj' = Defaults /\ pc' = "loaded"
  /\ UNCHANGED <<fileVars, appVars, call, basis, bounds, history>>

\* ... and the defaults are written in its place, or that fails.
Rewrite ==
  /\ pc = "rewrite"
  /\ file' \in {Good(0, Defaults), file}
  /\ obj' = Defaults /\ pc' = "loaded"
  /\ UNCHANGED <<backups, locked, appVars, call, basis, bounds, history>>

\* save_to: write_atomic fills and syncs a temp file of its own ...
WritesInPlace ==
  /\ pc = "write" /\ ~locked
  /\ file' = Bad(0) /\ pc' = "rename"
  /\ UNCHANGED <<backups, locked, appVars, call, basis, obj, bounds, history>>
WriteTemp ==
  /\ pc = "write" /\ ~locked
  /\ pc' = "rename"
  /\ UNCHANGED <<fileVars, appVars, call, basis, obj, bounds, history>>

Return == call' = "none" /\ pc' = "idle" /\ obj' = NoConfig /\ basis' = "sound"

\* ... and renames it over config.json.  saveConfig then takes the window's
\* values for the saved ones; setLastRegion only puts the region in the snapshot.
Rename ==
  /\ pc = "rename"
  /\ file' = Good(0, Normal(obj))
  /\ \/ /\ call = "save"
        /\ snapshot' = obj /\ savedDir' = typed
        /\ pressed' = pressed \cup {typed, Normal(obj).dir}
        /\ want' = [want EXCEPT !.dir = Normal(obj).dir]
        /\ lapses' = lapses \cup ({basis} \ {"sound"})
     \/ /\ call = "region"
        /\ snapshot' = IF snapshot = NoConfig THEN NoConfig ELSE [snapshot EXCEPT !.region = TRUE]
        /\ want' = [want EXCEPT !.region = TRUE]
        /\ lapses' = lapses \cup ({basis} \cap {"stale"})
        /\ UNCHANGED <<savedDir, pressed>>
  /\ Return
  /\ UNCHANGED <<backups, locked, typed, region, bounds, judged, replaced>>

\* A write that fails removes its temp file; nothing is saved.
WriteFails ==
  /\ pc \in {"write", "rename"} /\ Return
  /\ UNCHANGED <<fileVars, appVars, bounds, history>>

-----------------------------------------------------------------------------
(* The preferences window, on the GUI thread. *)

Begin(c) == pc = "idle" /\ call' = c /\ pc' = "load" /\ obj' = NoConfig /\ UNCHANGED basis

\* showEvent that the application asked for; onSave past validateBeforeSave
\* (which does not look at the directory); the hotkeys, the recording manager
\* and defaultSavePath, which keep nothing of what they read here.
Show == Begin("show") /\ UNCHANGED <<fileVars, appVars, bounds, history>>
Save == Begin("save") /\ UNCHANGED <<fileVars, appVars, bounds, history>>
Peek == Begin("peek") /\ UNCHANGED <<fileVars, appVars, bounds, history>>

\* setLastRegion: a capture is committed with "remember region" on.
CommitRegion ==
  /\ Begin("region") /\ region' = TRUE
  /\ UNCHANGED <<fileVars, typed, savedDir, snapshot, bounds, history>>

TypeDir(d) ==
  /\ pc = "idle" /\ d # typed /\ typed' = d
  /\ UNCHANGED <<fileVars, savedDir, snapshot, region, callVars, bounds, history>>

\* loadConfig: the file's values fill the window and become the saved ones;
\* a load that failed leaves everything as it was.
Shown ==
  /\ pc = "loaded" /\ call = "show" /\ Return
  /\ \/ obj = NoConfig /\ UNCHANGED appVars
     \/ /\ obj # NoConfig
        /\ snapshot' = obj /\ typed' = obj.dir /\ savedDir' = obj.dir
        /\ region' = (region \/ obj.region)
  /\ UNCHANGED <<fileVars, bounds, history>>

Peeked == pc = "loaded" /\ call = "peek" /\ Return /\ UNCHANGED <<fileVars, appVars, bounds, history>>

\* What a save merges onto: the file, else the last good snapshot, else nothing.
FromScratch == Defaults
Base == IF obj # NoConfig THEN obj ELSE IF snapshot # NoConfig THEN snapshot ELSE Defaults

\* What that base is worth: nothing, an old snapshot that lacks what the editor
\* has written since, or all there is to keep.
Basis ==
  IF obj # NoConfig THEN "sound"
  ELSE IF snapshot = NoConfig THEN "blind"
  ELSE IF ~Keeps(snapshot, want) THEN "stale"
  ELSE "sound"

\* saveConfig: the window's fields over the base, also when there is none.
MergeSettings ==
  /\ pc = "loaded" /\ call = "save"
  /\ obj' = [Base EXCEPT !.dir = typed, !.region = @ \/ region]
  /\ pc' = "write" /\ basis' = Basis
  /\ UNCHANGED <<fileVars, appVars, call, bounds, history>>

\* setLastRegion: the region alone over the base, or nothing without a base.
PersistsTheWindow ==
  /\ pc = "loaded" /\ call = "region"
  /\ obj' = [Base EXCEPT !.dir = typed, !.region = TRUE]
  /\ pc' = "write" /\ basis' = Basis
  /\ UNCHANGED <<fileVars, appVars, call, bounds, history>>
RegionOverNothing ==
  /\ pc = "loaded" /\ call = "region"
  /\ obj' = [Base EXCEPT !.region = TRUE]
  /\ pc' = "write" /\ basis' = Basis
  /\ UNCHANGED <<fileVars, appVars, call, bounds, history>>
MergeRegion ==
  /\ pc = "loaded" /\ call = "region"
  /\ \/ /\ obj = NoConfig /\ snapshot = NoConfig /\ Return
     \/ /\ obj # NoConfig \/ snapshot # NoConfig
        /\ obj' = [Base EXCEPT !.region = TRUE]
        /\ pc' = "write" /\ basis' = Basis /\ UNCHANGED call
  /\ UNCHANGED <<fileVars, appVars, bounds, history>>

-----------------------------------------------------------------------------
(* The surroundings. *)

\* The editor writes the whole file: valid, hand-edited, or broken.
EditFile ==
  /\ edits < MaxEdits /\ edits' = edits + 1
  /\ replaced' = IF file.edit = 0 THEN replaced ELSE replaced \cup {file.edit}
  /\ lapses' = (IF pc \in {"idle", "down"} THEN {} ELSE {"race"})
  /\ \/ \E c \in [dir: Typed, region: {FALSE}, extra: {TRUE}] :
          /\ file' = Good(edits', c)
          /\ want' = Normal(c) /\ pressed' = pressed \cup {Normal(c).dir}
     \/ file' = Bad(edits') /\ UNCHANGED <<want, pressed>>
  /\ UNCHANGED <<backups, locked, appVars, callVars, crashes, judged>>

\* Permissions of the directory change, between two calls of the store.
ToggleLock ==
  /\ pc \in {"idle", "down"} /\ locked' = ~locked
  /\ UNCHANGED <<file, backups, appVars, callVars, bounds, history>>

Crash ==
  /\ pc # "down" /\ crashes < MaxCrashes /\ crashes' = crashes + 1
  /\ call' = "none" /\ pc' = "down" /\ obj' = NoConfig /\ basis' = "sound"
  /\ UNCHANGED <<fileVars, appVars, edits, history>>

Restart ==
  /\ pc = "down"
  /\ typed' = DefaultDir /\ savedDir' = DefaultDir /\ snapshot' = NoConfig /\ region' = FALSE
  /\ call' = "show" /\ pc' = "load" /\ UNCHANGED <<obj, basis>>
  /\ UNCHANGED <<fileVars, bounds, history>>

StoreStep ==
  \/ LoadMissing \/ LoadGood \/ LoadBad \/ LoadFails
  \/ Backup \/ BackupFails \/ Rewrite
  \/ WriteTemp \/ Rename \/ WriteFails
  \/ Shown \/ Peeked \/ MergeSettings \/ MergeRegion
UserStep == Show \/ Save \/ Peek \/ CommitRegion \/ \E d \in Typed : TypeDir(d)
Surroundings == EditFile \/ ToggleLock \/ Crash \/ Restart

\* saveImage: where the next screenshot goes.
ReadsTheWidget == typed
Destination == savedDir

-----------------------------------------------------------------------------
(* What the store promises. *)

\* A crash in any step of a save or a heal leaves the old file, the new one or
\* none: only the editor ever makes config.json unreadable.
AppNeverTears == file.kind = "bad" => file.edit # 0

\* self_heal "never destroys the user's only copy": a text some load found
\* unreadable is in place, in a backup, or overwritten by the editor itself.
NeverTheOnlyCopy ==
  \A n \in judged : file.edit = n \/ n \in replaced \/ \E i \in DOMAIN backups : backups[i] = n

\* config.json is never lost by a write, a failed write or a crash.
FileIsSafe == AppNeverTears /\ NeverTheOnlyCopy

\* Neither a region commit nor a save loses a setting: a readable file holds
\* the directory last saved or hand-edited, the fields the window does not know
\* and the region once committed, however many calls, failures and crashes lie
\* between.  (A missing or unreadable file counts as a reset to the defaults, as
\* load_from says.)  Until the next load three lapses are excused, each named in
\* `lapses`: the editor wrote while a call was under way and may be overwritten
\* ("race"); the file could not be read, and the snapshot merged onto was older
\* than an editor's write ("stale"); and saveConfig found neither a readable file
\* nor a snapshot and merged onto nothing ("blind", see SavesKeepTheRest).
NoSettingLost == file.kind = "good" /\ lapses = {} => Keeps(file.cfg, want)

\* saveConfig: "If the disk read fails, fall back to the last config we
\* successfully loaded/saved rather than an empty object, which would drop every
\* Rust-only field."  A save never drops them: no lapse is a blind one.
SavesKeepTheRest == file.kind = "good" /\ lapses \subseteq {"blind"} => Keeps(file.cfg, want)

\* What was only typed in the window reaches neither the file nor a capture.
UnsavedEditsStayOut ==
  /\ Destination \in pressed
  /\ file.kind = "good" => Normal(file.cfg).dir \in pressed

\* "a relative path would resolve against the app's unpredictable CWD": the
\* directory a capture is saved in is one normalize would leave alone.
CapturesGoToAbsolutePaths == Destination \in Absolute

StoreNext == StoreStep \/ UserStep \/ Surroundings
StoreSpec == StoreInit /\ [][StoreNext]_storeVars
=============================================================================

------------------------- MODULE PreferencesProofs -------------------------
(***************************************************************************)
(* What the preferences window sets, in its two homes: the hotkeys bound   *)
(* in the system (GlobalHotkeys) and the file on disk (ConfigStore).  The  *)
(* components share no variable; each is proved for all values of its own  *)
(* constants.                                                              *)
(***************************************************************************)
EXTENDS GlobalHotkeys, ConfigStore, TLAPS

-----------------------------------------------------------------------------
(* GlobalHotkeys, for any actions, chords and number of sleeps.  The one   *)
(* fact its theorems rest on: the system holds a registration only under   *)
(* the reference that can release it, so releasing leaves nothing behind.  *)

(* What is needed of the types: registrations and references of actions.   *)
Shape ==
  /\ live \subseteq Actions \X Chords
  /\ DOMAIN hotkeys = Actions
  /\ config \in [Actions -> Chords] /\ rows \in [Actions -> Chords]
  /\ row \in Actions \cup {NoRow}
  /\ app = "starting" => row = NoRow

HotkeyInv == Shape /\ BoundFollowsConfig

(* Under the invariant a release leaves no registration behind.            *)
LEMMA NothingLeft == HotkeyInv => Released = {}
  BY DEF HotkeyInv, Shape, BoundFollowsConfig, Released

(* Whatever chords are bound, each registration has its reference.         *)
LEMMA BindFacts ==
  ASSUME HotkeyInv, NEW chords \in [Actions -> Chords], NEW failed,
         Bind(chords, failed)
  PROVE  /\ live' \subseteq Actions \X Chords
         /\ DOMAIN hotkeys' = Actions
         /\ \A r \in live' : hotkeys'[r[1]] = r[2] /\ chords[r[1]] = r[2]
<1>1. Released = {}
  BY NothingLeft
<1>2. live' = {<<a, chords[a]>> : a \in Actions \ failed}
  BY <1>1 DEF Bind
<1>3. hotkeys' = [a \in Actions |-> IF a \in failed THEN NoChord ELSE chords[a]]
  BY DEF Bind
<1>4. ASSUME NEW r \in live'
      PROVE  r \in Actions \X Chords /\ hotkeys'[r[1]] = r[2] /\ chords[r[1]] = r[2]
  <2>1. PICK a \in Actions \ failed : r = <<a, chords[a]>>
    BY <1>2
  <2> QED BY <2>1, <1>3
<1> QED BY <1>3, <1>4

(* Registering re-establishes the invariant for the config cfg, whether it *)
(* can be read or not.                                                     *)
LEMMA Binding ==
  ASSUME HotkeyAssumption, HotkeyInv, NEW cfg \in [Actions -> Chords], NEW failed,
         registerAllChords(cfg, failed)
  PROVE  /\ live' \subseteq Actions \X Chords
         /\ DOMAIN hotkeys' = Actions
         /\ \A r \in live' :
              /\ hotkeys'[r[1]] = r[2]
              /\ (IF fellBack' THEN Default[r[1]] ELSE cfg[r[1]]) = r[2]
<1>1. PICK unreadable \in BOOLEAN :
        Bind(Snapshot(cfg, unreadable), failed) /\ fellBack' = unreadable
  BY Zenon DEF registerAllChords
<1>2. CASE unreadable
  <2>1. Bind(Default, failed) /\ fellBack'
    BY <1>1, <1>2 DEF Snapshot
  <2>2. Default \in [Actions -> Chords]
    BY DEF HotkeyAssumption
  <2> QED BY <2>1, <2>2, BindFacts
<1>3. CASE ~unreadable
  <2>1. Bind(cfg, failed) /\ ~fellBack'
    BY <1>1, <1>3 DEF Snapshot
  <2> QED BY <2>1, BindFacts
<1> QED BY <1>2, <1>3

(* A release leaves no registration at all.                                *)
LEMMA Releasing ==
  ASSUME HotkeyInv, unregisterGlobalHotkeys
  PROVE  live' = {} /\ DOMAIN hotkeys' = Actions
  BY NothingLeft DEF unregisterGlobalHotkeys

(* Installing the handler binds the saved chords or leaves none.           *)
LEMMA Installing ==
  ASSUME HotkeyAssumption, HotkeyInv, NEW failed, installAndRegister(failed)
  PROVE  /\ live' \subseteq Actions \X Chords
         /\ DOMAIN hotkeys' = Actions
         /\ \A r \in live' :
              /\ hotkeys'[r[1]] = r[2]
              /\ (IF fellBack' THEN Default[r[1]] ELSE config[r[1]]) = r[2]
<1>1. CASE registerAllChords(config, failed)
  BY <1>1, Binding DEF HotkeyInv, Shape
<1>2. CASE unregisterGlobalHotkeys
  BY <1>2, Releasing
<1> QED BY <1>1, <1>2 DEF installAndRegister

LEMMA StopStep ==
  ASSUME HotkeyInv, HotkeyAssumption, NEW newRows \in [Actions -> Chords], NEW shown,
         stopRecording(newRows, shown)
  PROVE  HotkeyInv'
<1>1. PICK failed : registerAllChords(config, failed)
  BY DEF stopRecording, Rebind
<1>2. /\ live' \subseteq Actions \X Chords
      /\ DOMAIN hotkeys' = Actions
      /\ \A r \in live' :
           /\ hotkeys'[r[1]] = r[2]
           /\ (IF fellBack' THEN Default[r[1]] ELSE config[r[1]]) = r[2]
  BY <1>1, Binding DEF HotkeyInv, Shape
<1> QED BY <1>2 DEF stopRecording, HotkeyInv, Shape, BoundFollowsConfig, InForce

LEMMA HotkeyInitially == HotkeyAssumption /\ Init => HotkeyInv
  BY DEF HotkeyAssumption, Init, HotkeyInv, Shape, BoundFollowsConfig, InForce

LEMMA HotkeyInductive ==
  ASSUME HotkeyAssumption, HotkeyInv, [Next]_vars
  PROVE  HotkeyInv'
<1> USE DEF HotkeyInv, Shape
<1>1. CASE registerGlobalHotkey
  <2>1. PICK failed : installAndRegister(failed)
    BY <1>1 DEF registerGlobalHotkey
  <2> QED BY <1>1, <2>1, Installing DEF registerGlobalHotkey, prefs, BoundFollowsConfig, InForce
<1>2. CASE reregisterGlobalHotkeys
  <2>1. CASE captureActive
    BY <1>2, <2>1 DEF reregisterGlobalHotkeys, prefs, bound, past, BoundFollowsConfig, InForce
  <2>2. CASE ~captureActive
    <3>1. PICK failed : installAndRegister(failed)
      BY <1>2, <2>2 DEF reregisterGlobalHotkeys
    <3> QED BY <1>2, <3>1, Installing DEF reregisterGlobalHotkeys, prefs, BoundFollowsConfig, InForce
  <2> QED BY <2>1, <2>2
<1>3. CASE Retry
  <2>1. CASE captureActive
    BY <1>3, <2>1 DEF Retry, prefs, bound, past, BoundFollowsConfig, InForce
  <2>2. CASE ~captureActive
    <3>1. PICK failed : installAndRegister(failed)
      BY <1>3, <2>2 DEF Retry
    <3> QED BY <1>3, <3>1, Installing DEF Retry, prefs, BoundFollowsConfig, InForce
  <2> QED BY <2>1, <2>2
<1>4. CASE ShowWindow
  BY <1>4 DEF ShowWindow, bound, BoundFollowsConfig, InForce
<1>5. CASE HideWindow
  <2>1. CASE Capturing
    BY <1>5, <2>1, StopStep DEF HideWindow
  <2>2. CASE ~Capturing
    BY <1>5, <2>2 DEF HideWindow, bound, BoundFollowsConfig, InForce
  <2> QED BY <2>1, <2>2
<1>6. CASE ResetAll
  <2>1. Default \in [Actions -> Chords]
    BY DEF HotkeyAssumption
  <2> QED BY <1>6, <2>1 DEF ResetAll, bound, BoundFollowsConfig, InForce
<1>7. CASE onSave
  <2>1. PICK failed : registerAllChords(rows, failed)
    BY <1>7 DEF onSave, Rebind
  <2>2. /\ live' \subseteq Actions \X Chords
        /\ DOMAIN hotkeys' = Actions
        /\ \A r \in live' :
             /\ hotkeys'[r[1]] = r[2]
             /\ (IF fellBack' THEN Default[r[1]] ELSE rows[r[1]]) = r[2]
    BY <2>1, Binding
  <2> QED BY <1>7, <2>2 DEF onSave, BoundFollowsConfig, InForce
<1>8. CASE AboutToQuit
  BY <1>8, Releasing DEF AboutToQuit, prefs, BoundFollowsConfig, InForce
<1>9. ASSUME NEW r \in Actions, startRecording(r)
      PROVE  HotkeyInv'
  BY <1>9, Releasing DEF startRecording, Up, BoundFollowsConfig, InForce
<1>10. CASE CancelRecording
  BY <1>10, StopStep DEF CancelRecording
<1>11. CASE RecordChord
  <2>1. PICK c \in Chords : stopRecording([rows EXCEPT ![row] = c], TRUE)
    BY <1>11 DEF RecordChord
  <2>2. [rows EXCEPT ![row] = c] \in [Actions -> Chords]
    OBVIOUS
  <2> QED BY <2>1, <2>2, StopStep
<1>12. CASE Sleep
  BY <1>12 DEF Sleep, prefs, bound, past, BoundFollowsConfig, InForce
<1>13. CASE Wake
  BY <1>13 DEF Wake, prefs, BoundFollowsConfig, InForce
<1>14. CASE Settle
  BY <1>14 DEF Settle, prefs, bound, past, BoundFollowsConfig, InForce
<1>15. CASE UNCHANGED vars
  BY <1>15 DEF vars, prefs, bound, past, BoundFollowsConfig, InForce
<1> QED
  BY <1>1, <1>2, <1>3, <1>4, <1>5, <1>6, <1>7, <1>8, <1>9, <1>10, <1>11,
     <1>12, <1>13, <1>14, <1>15 DEF Next

(* No registration outlives its reference and no stale chord fires: what   *)
(* is bound is what is saved, or the default if the config could not be    *)
(* read, whatever the user and the machine do.                             *)
THEOREM NoStrayHotkey == Spec => []BoundFollowsConfig
<1>1. Init => HotkeyInv
  BY HotkeyInitially, HotkeyAssumption
<1>2. HotkeyInv /\ [Next]_vars => HotkeyInv'
  BY HotkeyInductive, HotkeyAssumption
<1>3. HotkeyInv => BoundFollowsConfig
  BY DEF HotkeyInv
<1> QED BY <1>1, <1>2, <1>3, PTL DEF Spec

(* One step keeps the chords released while one is recorded, unless the    *)
(* user saves in the middle.                                               *)
LEMMA StaysReleased ==
  ASSUME HotkeyAssumption, HotkeyInv, ReleasedWhileCapturing, [Next]_vars
  PROVE  ReleasedWhileCapturing'
<1> USE DEF ReleasedWhileCapturing, Capturing
<1>1. CASE registerGlobalHotkey
  BY <1>1 DEF registerGlobalHotkey, HotkeyInv, Shape, prefs, past
<1>9. CASE reregisterGlobalHotkeys \/ Retry
  BY <1>9 DEF reregisterGlobalHotkeys, Retry, prefs, bound, past
<1>2. CASE ShowWindow \/ ResetAll \/ Sleep \/ Settle \/ UNCHANGED vars
  BY <1>2 DEF ShowWindow, ResetAll, Sleep, Settle, vars, prefs, bound, past
<1>3. CASE HideWindow
  BY <1>3 DEF HideWindow, stopRecording, bound
<1>4. CASE onSave
  BY <1>4 DEF onSave, past
<1>5. CASE AboutToQuit
  BY <1>5, Releasing DEF AboutToQuit, prefs, past
<1>6. ASSUME NEW r \in Actions, startRecording(r)
      PROVE  ReleasedWhileCapturing'
  BY <1>6, Releasing DEF startRecording, HotkeyAssumption
<1>7. CASE CancelRecording \/ RecordChord
  BY <1>7 DEF CancelRecording, RecordChord, stopRecording
<1>8. CASE Wake
  BY <1>8 DEF Wake, prefs, past
<1> QED
  BY <1>1, <1>2, <1>3, <1>4, <1>5, <1>6, <1>7, <1>8, <1>9 DEF Next

(* A chord pressed while one is recorded reaches the recorder, for any     *)
(* number of sleeps and wakes, if the user does not save meanwhile.        *)
THEOREM RecorderHearsEveryChord == Spec => []ReleasedWhileCapturing
<1>1. Init => HotkeyInv /\ ReleasedWhileCapturing
  BY HotkeyInitially, HotkeyAssumption DEF Init, ReleasedWhileCapturing, Capturing
<1>2. HotkeyInv /\ ReleasedWhileCapturing /\ [Next]_vars => HotkeyInv' /\ ReleasedWhileCapturing'
  BY HotkeyInductive, StaysReleased, HotkeyAssumption
<1> QED BY <1>1, <1>2, PTL DEF Spec

(* Both together: only chords in force are bound, and none while a chord   *)
(* is recorded.                                                            *)
THEOREM Bindings == Spec => []BindingsSound
BY NoStrayHotkey, RecorderHearsEveryChord, PTL DEF BindingsSound

(* No recovery from a sleep is owed.                                       *)
Recovered == app = "running" /\ machine = "awake" /\ retries = 0

(* Then the handler works or the user knows, also while a chord is         *)
(* recorded, unless the recovery was skipped for one; and each hotkey is   *)
(* bound or told, unless a chord is being recorded.                        *)
HandlerTold == handler = "live" \/ Handler \in told
BoundOrTold == \A a \in Actions : <<a, InForce(a)>> \in live \/ a \in told
Recovery ==
  /\ retries \in Nat
  /\ Recovered /\ ~skipped => HandlerTold
  /\ Recovered /\ ~Capturing => BoundOrTold \/ Handler \in told

(* Registering binds each chord it read or says that it could not.         *)
LEMMA BindsOrTells ==
  ASSUME NEW cfg, NEW failed, registerAllChords(cfg, failed)
  PROVE  \A a \in Actions :
           \/ <<a, IF fellBack' THEN Default[a] ELSE cfg[a]>> \in live'
           \/ a \in failed
<1>1. PICK unreadable \in BOOLEAN :
        Bind(Snapshot(cfg, unreadable), failed) /\ fellBack' = unreadable
  BY Zenon DEF registerAllChords
<1>2. CASE unreadable
  BY <1>1, <1>2 DEF Snapshot, Bind
<1>3. CASE ~unreadable
  BY <1>1, <1>3 DEF Snapshot, Bind
<1> QED BY <1>2, <1>3

(* Installing the handler and binding the saved chords, likewise.          *)
LEMMA InstallsOrTells ==
  ASSUME NEW failed, installAndRegister(failed)
  PROVE  \/ Handler \in failed
         \/ /\ handler' = "live"
            /\ \A a \in Actions :
                 \/ <<a, IF fellBack' THEN Default[a] ELSE config[a]>> \in live'
                 \/ a \in failed
<1>1. CASE handler' = "live" /\ registerAllChords(config, failed)
  BY <1>1, BindsOrTells
<1>2. CASE failed = {Handler}
  BY <1>2
<1>3. QED
  BY <1>1, <1>2 DEF installAndRegister

(* The end of a capture binds the saved chords and tells what failed.      *)
LEMMA StopTells ==
  ASSUME Recovery, NEW newRows, NEW shown, stopRecording(newRows, shown)
  PROVE  Recovery'
<1>1. PICK failed : /\ registerAllChords(config, failed)
                    /\ told' = (told \cap {Handler}) \cup failed /\ UNCHANGED handler
  BY DEF stopRecording, Rebind
<1>2. BoundOrTold'
  BY <1>1, BindsOrTells DEF BoundOrTold, InForce, stopRecording
<1>3. HandlerTold => HandlerTold'
  BY <1>1 DEF HandlerTold
<1>4. QED
  BY <1>2, <1>3 DEF Recovery, Recovered, stopRecording, host

(* One step leaves every hotkey working or told, once it owes no recovery. *)
LEMMA StaysTold ==
  ASSUME HotkeyAssumption, Recovery, ReleasedWhileCapturing, [Next]_vars
  PROVE  Recovery'
<1>1. CASE registerGlobalHotkey
  <2>1. PICK failed : installAndRegister(failed) /\ told' = failed
    BY <1>1 DEF registerGlobalHotkey
  <2>2. HandlerTold' /\ (BoundOrTold' \/ Handler \in told')
    BY <1>1, <2>1, InstallsOrTells DEF registerGlobalHotkey, prefs, HandlerTold, BoundOrTold, InForce
  <2>3. QED
    BY <1>1, <2>2 DEF registerGlobalHotkey, Recovery
<1>2. CASE reregisterGlobalHotkeys
  <2>1. CASE captureActive
    BY <1>2, <2>1 DEF reregisterGlobalHotkeys, Recovery, Recovered, prefs, bound,
                      ReleasedWhileCapturing, Capturing
  <2>2. CASE ~captureActive
    <3>1. PICK failed : /\ installAndRegister(failed)
                        /\ IF failed = {} THEN told' = {} /\ UNCHANGED retries
                           ELSE retries' = retries + 1 /\ UNCHANGED told
      BY <1>2, <2>2 DEF reregisterGlobalHotkeys
    <3>2. CASE failed = {}
      <4>1. HandlerTold' /\ BoundOrTold'
        BY <1>2, <3>1, <3>2, InstallsOrTells
        DEF reregisterGlobalHotkeys, prefs, HandlerTold, BoundOrTold, InForce
      <4>2. QED
        BY <3>1, <3>2, <4>1 DEF Recovery
    <3>3. CASE failed # {}
      BY <3>1, <3>3 DEF Recovery, Recovered
    <3>4. QED
      BY <3>2, <3>3
  <2>3. QED
    BY <2>1, <2>2 DEF ReleasedWhileCapturing, Capturing
<1>3. CASE Retry
  <2>1. retries' \in Nat
    BY <1>3 DEF Retry, Recovery
  <2>2. CASE captureActive
    BY <1>3, <2>1, <2>2 DEF Retry, Recovery, Recovered, prefs, bound,
                            ReleasedWhileCapturing, Capturing
  <2>3. CASE ~captureActive
    <3>1. PICK failed : installAndRegister(failed) /\ told' = failed
      BY <1>3, <2>3 DEF Retry
    <3>2. HandlerTold' /\ (BoundOrTold' \/ Handler \in told')
      BY <1>3, <3>1, InstallsOrTells DEF Retry, prefs, HandlerTold, BoundOrTold, InForce
    <3>3. QED
      BY <2>1, <3>2 DEF Recovery
  <2>4. QED
    BY <2>2, <2>3 DEF ReleasedWhileCapturing, Capturing
<1>4. CASE ShowWindow \/ ResetAll \/ Settle \/ UNCHANGED vars
  BY <1>4 DEF ShowWindow, ResetAll, Settle, vars, bound, host, past, prefs,
              Recovery, Recovered, HandlerTold, BoundOrTold, InForce, Capturing
<1>5. CASE HideWindow
  <2>1. CASE Capturing
    BY <1>5, <2>1, StopTells DEF HideWindow
  <2>2. CASE ~Capturing
    BY <1>5, <2>2 DEF HideWindow, bound, host, past,
                      Recovery, Recovered, HandlerTold, BoundOrTold, InForce, Capturing
  <2>3. QED
    BY <2>1, <2>2
<1>6. CASE onSave
  <2>1. PICK failed : /\ registerAllChords(rows, failed)
                      /\ told' = (told \cap {Handler}) \cup failed /\ UNCHANGED handler
    BY <1>6 DEF onSave, Rebind
  <2>2. BoundOrTold'
    BY <1>6, <2>1, BindsOrTells DEF BoundOrTold, InForce, onSave
  <2>3. HandlerTold => HandlerTold'
    BY <2>1 DEF HandlerTold
  <2>4. QED
    BY <1>6, <2>2, <2>3 DEF Recovery, Recovered, onSave, host
<1>7. ASSUME NEW r \in Actions, startRecording(r) PROVE Recovery'
  <2>1. Capturing'
    BY <1>7 DEF startRecording, HotkeyAssumption, Capturing
  <2>2. HandlerTold => HandlerTold'
    BY <1>7 DEF startRecording, HandlerTold
  <2>3. QED
    BY <1>7, <2>1, <2>2 DEF startRecording, Recovery, Recovered, host
<1>8. CASE CancelRecording \/ RecordChord
  BY <1>8, StopTells DEF CancelRecording, RecordChord
<1>9. CASE AboutToQuit \/ Sleep \/ Wake
  BY <1>9 DEF AboutToQuit, Sleep, Wake, Recovery, Recovered
<1>10. QED
  BY <1>1, <1>2, <1>3, <1>4, <1>5, <1>6, <1>7, <1>8, <1>9 DEF Next

(* When the recovery from a sleep is over and no chord is recorded, every  *)
(* action's chord in force is registered and dispatched, or the user was   *)
(* told; if a recording made the code skip the recovery, only the handler  *)
(* may be dead.                                                            *)
THEOREM RecoveryTold == Spec => []WorksOrTold
<1>1. Init => Recovery /\ ReleasedWhileCapturing /\ HotkeyInv
  BY HotkeyInitially, HotkeyAssumption
  DEF Init, Recovery, Recovered, ReleasedWhileCapturing, Capturing
<1>2. Recovery /\ ReleasedWhileCapturing /\ HotkeyInv /\ [Next]_vars
        => Recovery' /\ ReleasedWhileCapturing' /\ HotkeyInv'
  BY StaysTold, HotkeyInductive, StaysReleased, HotkeyAssumption
<1>3. Recovery => WorksOrTold
  BY DEF Recovery, Recovered, WorksOrTold, Told, AtRest, HandlerTold, BoundOrTold
<1>4. QED
  BY <1>1, <1>2, <1>3, PTL DEF Spec

-----------------------------------------------------------------------------
(* ConfigStore, for any directories, any number of editor writes and any   *)
(* number of crashes.                                                      *)

(* The pictures of a configuration that the steps draw.                    *)
LEMMA NormalFacts ==
  ASSUME NEW c \in Configs
  PROVE  /\ Normal(c) \in Configs /\ Normal(Normal(c)) = Normal(c)
         /\ Normal(c).dir \in Absolute
         /\ Normal(c).region = c.region /\ Normal(c).extra = c.extra
  BY DirsAssumption DEF Normal, Configs, Typed

LEMMA DefaultsFacts ==
  /\ Defaults \in Configs /\ Normal(Defaults) = Defaults
  /\ Defaults.dir = DefaultDir /\ Defaults.region = FALSE /\ Defaults.extra = FALSE
  /\ NoConfig \notin Configs
  BY DirsAssumption, NoConfigAssumption DEF Normal, Configs, Typed, Defaults

(* A save puts the window's fields over a base and keeps the others.       *)
LEMMA MergeFacts ==
  ASSUME NEW c \in Configs, NEW d \in Typed, NEW r \in BOOLEAN,
         NEW m, m = [c EXCEPT !.dir = d, !.region = @ \/ r]
  PROVE  m \in Configs /\ m.dir = d /\ m.extra = c.extra /\ (c.region => m.region)
  BY DEF Configs

(* A region commit only puts the region there.                             *)
LEMMA RegionFacts ==
  ASSUME NEW c \in Configs, NEW m, m = [c EXCEPT !.region = TRUE]
  PROVE  /\ m \in Configs /\ m.region /\ m.extra = c.extra
         /\ Normal(m).dir = Normal(c).dir
  BY DEF Configs, Normal

(* Shapes of the variables, with the truth values apart.                   *)
StoreFlags == locked \in BOOLEAN /\ region \in BOOLEAN
Slots == 0 .. MaxEdits
StoreTypes ==
  /\ file.kind \in {"missing", "bad", "good"}
  /\ file.edit \in Nat /\ file.edit <= edits
  /\ file.kind = "good" => file.cfg \in Configs
  /\ DOMAIN backups = Slots /\ \A i \in Slots : backups[i] \in Nat
  /\ edits \in Slots
  /\ typed \in Typed /\ savedDir \in Typed
  /\ snapshot \in Configs \cup {NoConfig} /\ obj \in Configs \cup {NoConfig}
  /\ want \in Configs
  /\ judged \subseteq 1 .. edits

(* Where a call can be: what is unreadable is an editor's write, also when *)
(* the editor writes between the load and the heal, and a write under way  *)
(* has something to write.                                                 *)
Places ==
  /\ file.kind = "missing" => file.edit = 0
  /\ file.kind = "bad" => file.edit # 0
  /\ pc = "heal" => file.edit # 0
  /\ pc \in {"rename", "rewrite"} => ~locked
  /\ pc \in {"write", "rename"} => obj # NoConfig /\ call \in {"save", "region"}

(* The backups fill the first names without a gap, the i-th with an editor *)
(* write later than i, and what is in place is later than all of them: so  *)
(* there is a free name for every editor write that is moved aside.        *)
BackupsTight ==
  /\ \E k \in Slots : \A i \in Slots : backups[i] # 0 <=> i < k
  /\ \A i \in Slots : backups[i] <= edits /\ (backups[i] # 0 => i < backups[i])
  /\ file.edit # 0 => \A i \in Slots : backups[i] < file.edit

(* An editor write found unreadable is where NeverTheOnlyCopy says.  Past  *)
(* the heal it is still in place only because the directory is locked.     *)
Copies ==
  /\ \A n \in judged : file.edit = n \/ n \in replaced \/ \E i \in Slots : backups[i] = n
  /\ file.edit \in judged => file.kind = "bad"
  /\ file.edit \in judged /\ pc \in {"loaded", "write", "rename", "rewrite"} => locked

(* Every directory on its way into the file or the getters was saved.      *)
Pressed ==
  /\ DefaultDir \in pressed /\ savedDir \in pressed
  /\ file.kind = "good" => Normal(file.cfg).dir \in pressed
  /\ snapshot # NoConfig => Normal(snapshot).dir \in pressed
  /\ pc = "loaded" /\ obj # NoConfig => obj.dir \in pressed /\ Normal(obj) = obj
  /\ pc \in {"write", "rename"} /\ call = "region" => Normal(obj).dir \in pressed

(* Every configuration on its way into the file keeps the settings, unless *)
(* a lapse excuses what the file holds or the base it was merged onto.  A  *)
(* region commit never goes onto a blind base.                             *)
Settings == lapses = {} =>
  /\ file.kind = "good" => Keeps(file.cfg, want)
  /\ pc = "heal" => want = Defaults /\ file.kind = "bad"
  /\ pc = "rewrite" => want = Defaults /\ file.kind = "missing"
  /\ pc = "loaded" /\ obj # NoConfig => Keeps(obj, want)
  /\ pc \in {"write", "rename"} /\ call = "save" /\ basis = "sound" =>
       obj.extra = want.extra /\ (want.region => obj.region)
  /\ pc \in {"write", "rename"} /\ call = "region" /\ basis # "stale" =>
       Keeps(obj, want) /\ obj.region

StoreInv ==
  /\ StoreFlags /\ StoreTypes /\ Places /\ BackupsTight
  /\ Copies /\ Pressed /\ Settings

LEMMA StoreInitially == StoreInit => StoreInv
<1> SUFFICES ASSUME StoreInit PROVE StoreInv
  OBVIOUS
<1> USE DEF StoreInit, Missing
<1>1. StoreFlags
  BY DEF StoreFlags
<1>2. StoreTypes /\ Places
  BY DirsAssumption, BoundsAssumption, DefaultsFacts DEF StoreTypes, Places, Slots, Typed
<1>3. BackupsTight /\ Copies
  <2>1. \A i \in Slots : backups[i] = 0
    BY DEF Slots
  <2>3. file.edit = 0 /\ judged = {} /\ edits = 0
    OBVIOUS
  <2> HIDE DEF StoreInit
  <2>2. 0 \in Slots /\ \A i \in Slots : ~(i < 0)
    BY BoundsAssumption DEF Slots
  <2>4. BackupsTight
    BY <2>1, <2>2, <2>3 DEF BackupsTight
  <2>5. Copies
    BY <2>3 DEF Copies
  <2>6. QED
    BY <2>4, <2>5
<1>4. Pressed /\ Settings
  BY DEF Pressed, Settings
<1> QED
  BY <1>1, <1>2, <1>3, <1>4 DEF StoreInv

LEMMA FlagsStay ==
  ASSUME StoreFlags, StoreTypes, StoreStep \/ UserStep \/ Surroundings
  PROVE  StoreFlags'
<1> USE DEF StoreFlags, fileVars, appVars, bounds, history, callVars
<1>1. CASE LoadMissing \/ LoadGood \/ LoadBad \/ LoadFails
  BY <1>1 DEF LoadMissing, LoadGood, LoadBad, LoadFails
<1>2. CASE Backup \/ BackupFails \/ Rewrite
  BY <1>2 DEF Backup, BackupFails, Rewrite
<1>3. CASE WriteTemp \/ Rename \/ WriteFails
  BY <1>3 DEF WriteTemp, Rename, WriteFails
<1>4. CASE Shown
  BY <1>4 DEF Shown
<1>5. CASE Peeked \/ MergeSettings \/ MergeRegion
  BY <1>5 DEF Peeked, MergeSettings, MergeRegion
<1>6. CASE UserStep
  BY <1>6 DEF UserStep, Show, Save, Peek, CommitRegion, TypeDir
<1>7. CASE Surroundings
  BY <1>7 DEF Surroundings, EditFile, ToggleLock, Crash, Restart
<1> QED
  BY <1>1, <1>2, <1>3, <1>4, <1>5, <1>6, <1>7 DEF StoreStep

(* The name taken for a backup is the first one free.                      *)
LEMMA FreeNameFacts ==
  ASSUME StoreTypes, BackupsTight, file.edit # 0,
         NEW k \in Slots, \A i \in Slots : backups[i] # 0 <=> i < k
  PROVE  FreeName = k /\ k < file.edit
<1>1. MaxEdits \in Nat /\ k \in Nat /\ k <= MaxEdits /\ file.edit \in Nat /\ file.edit <= MaxEdits
  BY BoundsAssumption DEF Slots, StoreTypes
<1>2. k < file.edit
  <2>1. CASE k = 0
    BY <1>1, <2>1
  <2>2. CASE k # 0
    <3>1. k - 1 \in Slots /\ k - 1 < k
      BY <1>1, <2>2 DEF Slots
    <3>2. backups[k - 1] # 0 /\ k - 1 < backups[k - 1] /\ backups[k - 1] < file.edit
      BY <3>1 DEF BackupsTight
    <3>3. backups[k - 1] \in Nat
      BY <3>1 DEF StoreTypes
    <3>4. QED
      BY <1>1, <3>2, <3>3
  <2>3. QED
    BY <2>1, <2>2
<1>3. DOMAIN backups = 0 .. MaxEdits
  BY DEF StoreTypes, Slots
<1>4. backups[k] = 0 /\ \A j \in 0 .. k - 1 : backups[j] # 0
  BY <1>1 DEF Slots
<1>5. ASSUME NEW i \in 0 .. MaxEdits, backups[i] = 0, \A j \in 0 .. i - 1 : backups[j] # 0
      PROVE  i = k
  BY <1>1, <1>4, <1>5 DEF Slots
<1>6. k \in 0 .. MaxEdits
  BY DEF Slots
<1> QED
  BY <1>2, <1>3, <1>4, <1>5, <1>6 DEF FreeName

(* What an edit by hand leaves in place.                                   *)
LEMMA EditFacts ==
  ASSUME StoreTypes, EditFile
  PROVE  /\ edits \in Nat /\ edits < MaxEdits /\ edits' = edits + 1 /\ edits' \in Slots
         /\ UNCHANGED <<backups, locked, judged, appVars, callVars, crashes>>
         /\ \/ \E c \in Configs : file' = Good(edits', c) /\ ~c.region /\ want' = Normal(c)
                                  /\ pressed' = pressed \cup {Normal(c).dir}
            \/ file' = Bad(edits') /\ UNCHANGED <<want, pressed>>
<1>1. edits \in Nat /\ edits < MaxEdits /\ edits' = edits + 1 /\ edits' \in Slots
  BY BoundsAssumption DEF EditFile, StoreTypes, Slots
<1>2. UNCHANGED <<backups, locked, judged, appVars, callVars, crashes>>
  BY DEF EditFile
<1>3. [dir: Typed, region: {FALSE}, extra: {TRUE}] \subseteq Configs
      /\ \A c \in [dir: Typed, region: {FALSE}, extra: {TRUE}] : ~c.region
  BY DEF Configs
<1>4. \/ \E c \in [dir: Typed, region: {FALSE}, extra: {TRUE}] :
            file' = Good(edits', c) /\ want' = Normal(c) /\ pressed' = pressed \cup {Normal(c).dir}
      \/ file' = Bad(edits') /\ UNCHANGED <<want, pressed>>
  BY ZenonT(30) DEF EditFile
<1> QED
  BY <1>1, <1>2, <1>3, <1>4

(* Steps of the store that read or prepare keep the file and its backups;  *)
(* what may change is in the other steps.                                  *)
LEMMA TypesStay ==
  ASSUME StoreFlags, StoreTypes, Places, BackupsTight, StoreStep \/ UserStep \/ Surroundings
  PROVE  StoreTypes'
<1> USE DEF StoreTypes, fileVars, appVars, bounds, history, callVars
<1>1. CASE LoadMissing \/ LoadBad \/ LoadFails
  <2>1. CASE LoadMissing
    BY <2>1, DefaultsFacts DEF LoadMissing
  <2>2. CASE LoadBad
    <3>1. file.edit \in 1 .. edits
      BY <2>2, BoundsAssumption DEF LoadBad, Places, Slots
    <3>2. QED
      BY <2>2, <3>1, DefaultsFacts DEF LoadBad
  <2>3. CASE LoadFails
    BY <2>3 DEF LoadFails
  <2> QED
    BY <1>1, <2>1, <2>2, <2>3
<1>2. CASE LoadGood
  <2>1. Normal(file.cfg) \in Configs
    BY <1>2, NormalFacts DEF LoadGood
  <2>2. QED
    BY <1>2, <2>1 DEF LoadGood
<1>3. CASE Backup
  BY <1>3, BoundsAssumption DEF Backup, Missing, Slots
<1>4. CASE BackupFails \/ Rewrite
  <2>1. Good(0, Defaults).kind = "good" /\ Good(0, Defaults).edit = 0
        /\ Good(0, Defaults).cfg \in Configs
    BY DefaultsFacts DEF Good
  <2>2. CASE BackupFails
    BY <2>2, DefaultsFacts DEF BackupFails
  <2>3. CASE Rewrite
    <3>1. file' = Good(0, Defaults) \/ file' = file
      BY <2>3 DEF Rewrite
    <3>2. obj' = Defaults /\ UNCHANGED <<backups, edits, typed, savedDir, snapshot, want, judged>>
      BY <2>3 DEF Rewrite
    <3>3. edits \in Nat
      BY DEF Slots
    <3>4. QED
      BY <2>1, <3>1, <3>2, <3>3, DefaultsFacts
  <2> QED
    BY <1>4, <2>2, <2>3
<1>5. CASE WriteTemp \/ WriteFails \/ Peeked
  BY <1>5 DEF WriteTemp, WriteFails, Peeked, Return
<1>6. CASE Rename
  <2>1. obj \in Configs /\ Normal(obj) \in Configs
    BY <1>6, NormalFacts DEF Rename, Places
  <2>2. [want EXCEPT !.dir = Normal(obj).dir] \in Configs /\ [want EXCEPT !.region = TRUE] \in Configs
    BY <2>1 DEF Configs
  <2>3. snapshot # NoConfig => [snapshot EXCEPT !.region = TRUE] \in Configs
    BY DEF Configs
  <2>4. want' \in Configs /\ snapshot' \in Configs \cup {NoConfig}
    BY <1>6, <2>1, <2>2, <2>3 DEF Rename
  <2>5. file'.kind = "good" /\ file'.edit = 0 /\ file'.cfg \in Configs
    BY <1>6, <2>1 DEF Rename, Good
  <2>6. savedDir' \in Typed
    BY <1>6 DEF Rename
  <2>7. UNCHANGED <<backups, edits, typed, judged>> /\ obj' = NoConfig
    BY <1>6 DEF Rename, Return
  <2> QED
    BY <2>4, <2>5, <2>6, <2>7 DEF Slots
<1>7. CASE Shown
  <2>1. obj # NoConfig => obj.dir \in Typed
    BY DEF Configs
  <2> QED
    BY <1>7, <2>1 DEF Shown, Return
<1>8. CASE MergeSettings
  <2>1. Base \in Configs
    BY DefaultsFacts DEF Base
  <2>2. obj' = [Base EXCEPT !.dir = typed, !.region = @ \/ region]
    BY <1>8 DEF MergeSettings
  <2>3. obj' \in Configs
    BY <2>1, <2>2 DEF StoreFlags, Configs
  <2> QED
    BY <1>8, <2>3 DEF MergeSettings
<1>9. CASE MergeRegion
  <2>1. Base \in Configs
    BY DefaultsFacts DEF Base
  <2>2. obj' \in Configs \cup {NoConfig}
    BY <1>9, <2>1, RegionFacts DEF MergeRegion, Return
  <2> QED
    BY <1>9, <2>2 DEF MergeRegion
<1>10. CASE UserStep
  BY <1>10 DEF UserStep, Show, Save, Peek, CommitRegion, TypeDir, Begin
<1>11. CASE EditFile
  <2>1. edits' \in Slots /\ edits' = edits + 1 /\ edits \in Nat
        /\ UNCHANGED <<backups, judged, appVars, callVars>>
    BY <1>11, EditFacts
  <2>2. file'.edit = edits' /\ want' \in Configs
        /\ file'.kind \in {"bad", "good"} /\ (file'.kind = "good" => file'.cfg \in Configs)
    <3>1. CASE file' = Bad(edits') /\ UNCHANGED <<want, pressed>>
      BY <3>1 DEF Bad
    <3>2. CASE \E c \in Configs : file' = Good(edits', c) /\ want' = Normal(c)
      BY <3>2, NormalFacts DEF Good
    <3>3. QED
      BY <1>11, <3>1, <3>2, EditFacts
  <2>3. judged' \subseteq 1 .. edits'
    BY <2>1
  <2> QED
    BY <2>1, <2>2, <2>3
<1>12. CASE ToggleLock \/ Crash
  BY <1>12 DEF ToggleLock, Crash
<1>13. CASE Restart
  BY <1>13, DirsAssumption DEF Restart, Typed
<1> QED
  BY <1>1, <1>2, <1>3, <1>4, <1>5, <1>6, <1>7, <1>8, <1>9, <1>10, <1>11, <1>12, <1>13
  DEF StoreStep, Surroundings

LEMMA PlacesStay ==
  ASSUME StoreFlags, StoreTypes, Places, StoreStep \/ UserStep \/ Surroundings
  PROVE  Places'
<1> USE DEF Places, fileVars, appVars, bounds, history, callVars
<1>1. CASE LoadMissing \/ LoadGood \/ LoadBad \/ LoadFails
  BY <1>1 DEF LoadMissing, LoadGood, LoadBad, LoadFails
<1>2. CASE Backup
  BY <1>2 DEF Backup, Missing
<1>3. CASE BackupFails \/ Rewrite
  BY <1>3 DEF BackupFails, Rewrite, Good
<1>4. CASE WriteTemp \/ WriteFails \/ Peeked \/ Shown
  BY <1>4 DEF WriteTemp, WriteFails, Peeked, Shown, Return
<1>5. CASE Rename
  BY <1>5 DEF Rename, Return, Good
<1>6. CASE MergeSettings
  <2>1. Base \in Configs
    BY DefaultsFacts DEF Base, StoreTypes
  <2>2. obj' = [Base EXCEPT !.dir = typed, !.region = @ \/ region]
    BY <1>6 DEF MergeSettings
  <2>3. obj' \in Configs
    BY <2>1, <2>2 DEF StoreFlags, StoreTypes, Configs
  <2> QED
    BY <1>6, <2>3, DefaultsFacts DEF MergeSettings
<1>7. CASE MergeRegion
  <2>1. Base \in Configs
    BY DefaultsFacts DEF Base, StoreTypes
  <2>2. [Base EXCEPT !.region = TRUE] \in Configs
    BY <2>1, RegionFacts
  <2> QED
    BY <1>7, <2>2, DefaultsFacts DEF MergeRegion, Return
<1>8. CASE UserStep
  BY <1>8 DEF UserStep, Show, Save, Peek, CommitRegion, TypeDir, Begin
<1>9. CASE EditFile
  <2>1. edits' # 0 /\ UNCHANGED <<locked, callVars>>
    BY <1>9, EditFacts
  <2>2. file'.edit = edits' /\ file'.kind \in {"bad", "good"}
    BY <1>9, EditFacts DEF Good, Bad
  <2> QED
    BY <2>1, <2>2
<1>10. CASE ToggleLock \/ Crash \/ Restart
  BY <1>10 DEF ToggleLock, Crash, Restart
<1> QED
  BY <1>1, <1>2, <1>3, <1>4, <1>5, <1>6, <1>7, <1>8, <1>9, <1>10
  DEF StoreStep, Surroundings

(* Only a backup and an editor touch what BackupsTight speaks of; a write  *)
(* of the application only takes an editor's write out of place.           *)
LEMMA TightStays ==
  ASSUME StoreTypes, Places, BackupsTight, StoreStep \/ UserStep \/ Surroundings
  PROVE  BackupsTight'
<1> USE DEF fileVars, appVars, bounds, history, callVars
<1>1. CASE Backup
  <2>1. PICK k \in Slots : \A i \in Slots : backups[i] # 0 <=> i < k
    BY DEF BackupsTight
  <2>2. file.edit # 0
    BY <1>1 DEF Backup, Places
  <2>3. FreeName = k /\ k < file.edit
    BY <2>1, <2>2, FreeNameFacts
  <2>4. backups' = [backups EXCEPT ![k] = file.edit] /\ file'.edit = 0 /\ edits' = edits
    BY <1>1, <2>3 DEF Backup, Missing
  <2>5. DOMAIN backups = Slots /\ file.edit \in Nat /\ file.edit <= edits /\ edits <= MaxEdits
    BY BoundsAssumption DEF StoreTypes, Slots
  <2>6. \A i \in Slots : backups'[i] = IF i = k THEN file.edit ELSE backups[i]
    BY <2>4, <2>5
  <2>7. k + 1 \in Slots
    <3>1. k \in Nat /\ edits \in Nat
      BY DEF Slots, StoreTypes
    <3>2. QED
      BY <2>3, <2>5, <3>1, BoundsAssumption DEF Slots
  <2>8. \A i \in Slots : backups'[i] # 0 <=> i < k + 1
    <3> SUFFICES ASSUME NEW i \in Slots PROVE backups'[i] # 0 <=> i < k + 1
      OBVIOUS
    <3>1. CASE i = k
      BY <2>2, <2>6, <3>1 DEF Slots
    <3>2. CASE i # k
      <4>1. i < k + 1 <=> i < k
        BY <3>2 DEF Slots
      <4>2. QED
        BY <2>1, <2>6, <3>2, <4>1
    <3>3. QED
      BY <3>1, <3>2
  <2>9. \A i \in Slots : backups'[i] <= edits' /\ (backups'[i] # 0 => i < backups'[i])
    <3> SUFFICES ASSUME NEW i \in Slots
                 PROVE  backups'[i] <= edits' /\ (backups'[i] # 0 => i < backups'[i])
      OBVIOUS
    <3>1. CASE i = k
      BY <2>3, <2>4, <2>5, <2>6, <3>1
    <3>2. CASE i # k
      BY <2>4, <2>6, <3>2 DEF BackupsTight
    <3>3. QED
      BY <3>1, <3>2
  <2> QED
    BY <2>4, <2>7, <2>8, <2>9 DEF BackupsTight
<1>2. CASE EditFile
  <2>1. file'.edit = edits + 1 /\ edits' = edits + 1 /\ backups' = backups
    BY <1>2, EditFacts DEF Good, Bad
  <2>2. edits \in Nat /\ \A i \in Slots : backups[i] \in Nat /\ backups[i] <= edits
    BY BoundsAssumption DEF StoreTypes, BackupsTight, Slots
  <2>3. \A i \in Slots : backups'[i] <= edits' /\ backups'[i] < file'.edit
    BY <2>1, <2>2
  <2> QED
    BY <2>1, <2>3 DEF BackupsTight
<1>3. CASE backups' = backups /\ edits' = edits /\ (file' = file \/ file'.edit = 0)
  BY <1>3 DEF BackupsTight
<1>4. CASE Rewrite \/ Rename
  BY <1>3, <1>4 DEF Rewrite, Rename, Good
<1>5. CASE LoadMissing \/ LoadGood \/ LoadBad \/ LoadFails \/ BackupFails
  BY <1>3, <1>5 DEF LoadMissing, LoadGood, LoadBad, LoadFails, BackupFails
<1>6. CASE WriteTemp \/ WriteFails \/ Peeked \/ Shown \/ MergeSettings \/ MergeRegion
  BY <1>3, <1>6 DEF WriteTemp, WriteFails, Peeked, Shown, MergeSettings, MergeRegion
<1>7. CASE UserStep
  BY <1>3, <1>7 DEF UserStep, Show, Save, Peek, CommitRegion, TypeDir
<1>8. CASE ToggleLock \/ Crash \/ Restart
  BY <1>3, <1>8 DEF ToggleLock, Crash, Restart
<1> QED
  BY <1>1, <1>2, <1>4, <1>5, <1>6, <1>7, <1>8 DEF StoreStep, Surroundings

LEMMA CopiesStay ==
  ASSUME StoreTypes, Places, BackupsTight, Copies, StoreStep \/ UserStep \/ Surroundings
  PROVE  Copies'
<1> USE DEF fileVars, appVars, bounds, history, callVars
<1>1. CASE Backup
  <2>1. PICK k \in Slots : \A i \in Slots : backups[i] # 0 <=> i < k
    BY DEF BackupsTight
  <2>2. FreeName = k /\ ~(k < k)
    BY <1>1, <2>1, FreeNameFacts DEF Backup, Places, Slots
  <2>3. backups' = [backups EXCEPT ![k] = file.edit] /\ backups[k] = 0
    BY <1>1, <2>1, <2>2 DEF Backup
  <2>4. backups'[k] = file.edit /\ \A i \in Slots : i # k => backups'[i] = backups[i]
    BY <2>3 DEF StoreTypes
  <2>5. 0 \notin judged
    BY BoundsAssumption DEF StoreTypes, Slots
  <2>6. ASSUME NEW n \in judged PROVE n \in replaced \/ \E i \in Slots : backups'[i] = n
    <3>1. CASE file.edit = n
      BY <2>4, <3>1
    <3>2. ASSUME NEW i \in Slots, backups[i] = n PROVE backups'[i] = n
      BY <2>3, <2>4, <2>5, <2>6, <3>2
    <3>3. QED
      BY <2>6, <3>1, <3>2 DEF Copies
  <2>7. UNCHANGED <<judged, replaced>> /\ file'.edit = 0
    BY <1>1 DEF Backup, Missing
  <2> QED
    BY <2>5, <2>6, <2>7 DEF Copies
<1>2. CASE EditFile
  <2>1. file'.edit = edits + 1 /\ UNCHANGED <<backups, judged>>
    BY <1>2, EditFacts DEF Good, Bad
  <2>2. edits + 1 \notin judged /\ 0 \notin judged
    BY BoundsAssumption DEF StoreTypes, Slots
  <2>3. replaced' = IF file.edit = 0 THEN replaced ELSE replaced \cup {file.edit}
    BY <1>2 DEF EditFile
  <2> QED
    BY <2>1, <2>2, <2>3 DEF Copies
<1>3. CASE LoadBad
  <2>1. judged' = judged \cup {file.edit} /\ pc' = "heal" /\ file.kind = "bad"
        /\ UNCHANGED <<file, backups, replaced>>
    BY <1>3 DEF LoadBad
  <2> QED
    BY <2>1 DEF Copies
<1>4. CASE LoadFails
  <2>1. judged' = judged \ {file.edit} /\ UNCHANGED <<file, backups, replaced>>
    BY <1>4 DEF LoadFails
  <2> QED
    BY <2>1 DEF Copies
<1>5. CASE LoadMissing \/ LoadGood
  BY <1>5 DEF LoadMissing, LoadGood, Copies, Places, StoreTypes
<1>6. CASE Rewrite \/ Rename
  <2>1. file.edit \notin judged
    BY <1>6 DEF Rewrite, Rename, Copies, Places
  <2>2. 0 \notin judged
    BY BoundsAssumption DEF StoreTypes, Slots
  <2>3. file' = file \/ file'.edit = 0
    BY <1>6 DEF Rewrite, Rename, Good
  <2>4. UNCHANGED <<backups, judged, replaced>>
    BY <1>6 DEF Rewrite, Rename
  <2> QED
    BY <2>1, <2>2, <2>3, <2>4 DEF Copies
<1>7. CASE BackupFails
  <2>1. 0 \notin judged
    BY BoundsAssumption DEF StoreTypes, Slots
  <2> QED
    BY <1>7, <2>1 DEF BackupFails, Copies, Places
<1>8. CASE WriteTemp \/ WriteFails
  BY <1>8 DEF WriteTemp, WriteFails, Return, Copies
<1>9. CASE Peeked \/ Shown \/ MergeSettings \/ MergeRegion
  BY <1>9 DEF Peeked, Shown, MergeSettings, MergeRegion, Return, Copies
<1>10. CASE UserStep
  BY <1>10 DEF UserStep, Show, Save, Peek, CommitRegion, TypeDir, Begin, Copies
<1>11. CASE ToggleLock \/ Crash \/ Restart
  BY <1>11 DEF ToggleLock, Crash, Restart, Copies
<1> QED
  BY <1>1, <1>2, <1>3, <1>4, <1>5, <1>6, <1>7, <1>8, <1>9, <1>10, <1>11
  DEF StoreStep, Surroundings

LEMMA PressedStay ==
  ASSUME StoreTypes, Places, Pressed, StoreStep \/ UserStep \/ Surroundings
  PROVE  Pressed'
<1> USE DEF fileVars, appVars, bounds, history, callVars
<1>1. CASE LoadMissing \/ LoadBad \/ LoadFails
  BY <1>1, DefaultsFacts DEF LoadMissing, LoadBad, LoadFails, Pressed
<1>2. CASE LoadGood
  <2>1. file.cfg \in Configs /\ file.kind = "good"
    BY <1>2 DEF LoadGood, StoreTypes
  <2>2. Normal(Normal(file.cfg)) = Normal(file.cfg)
    BY <2>1, NormalFacts
  <2> QED
    BY <1>2, <2>1, <2>2 DEF LoadGood, Pressed
<1>3. CASE Backup \/ BackupFails
  BY <1>3, DefaultsFacts DEF Backup, BackupFails, Missing, Pressed
<1>4. CASE Rewrite
  <2>1. Good(0, Defaults).kind = "good" /\ Good(0, Defaults).cfg = Defaults
    BY DEF Good
  <2>2. file' = Good(0, Defaults) \/ file' = file
    BY <1>4 DEF Rewrite
  <2>3. obj' = Defaults /\ pc' = "loaded" /\ UNCHANGED <<pressed, savedDir, snapshot>>
    BY <1>4 DEF Rewrite
  <2> QED
    BY <2>1, <2>2, <2>3, DefaultsFacts DEF Pressed
<1>5. CASE WriteTemp \/ WriteFails \/ Peeked
  BY <1>5 DEF WriteTemp, WriteFails, Peeked, Return, Pressed
<1>6. CASE Rename
  <2>1. obj \in Configs /\ Normal(Normal(obj)) = Normal(obj)
    BY <1>6, NormalFacts DEF Rename, Places, StoreTypes
  <2>2. file'.cfg = Normal(obj) /\ pc' = "idle" /\ obj' = NoConfig
    BY <1>6 DEF Rename, Good, Return
  <2>3. CASE call = "save"
    BY <1>6, <2>1, <2>2, <2>3 DEF Rename, Pressed
  <2>4. CASE call = "region"
    <3>1. snapshot' = IF snapshot = NoConfig THEN NoConfig ELSE [snapshot EXCEPT !.region = TRUE]
      BY <1>6, <2>4 DEF Rename
    <3>2. snapshot' # NoConfig => snapshot # NoConfig /\ Normal(snapshot').dir = Normal(snapshot).dir
      BY <3>1, RegionFacts DEF StoreTypes
    <3>3. UNCHANGED <<pressed, savedDir>> /\ Normal(obj).dir \in pressed
      BY <1>6, <2>4 DEF Rename, Pressed
    <3>4. QED
      BY <2>1, <2>2, <3>2, <3>3 DEF Pressed
  <2> QED
    BY <1>6, <2>3, <2>4 DEF Rename
<1>7. CASE Shown
  BY <1>7 DEF Shown, Return, Pressed
<1>8. CASE MergeSettings
  BY <1>8 DEF MergeSettings, Pressed
<1>9. CASE MergeRegion
  <2>1. CASE obj' = [Base EXCEPT !.region = TRUE] /\ (obj # NoConfig \/ snapshot # NoConfig)
    <3>1. Base \in Configs /\ Normal(Base).dir \in pressed
      BY <1>9, <2>1 DEF MergeRegion, Base, StoreTypes, Pressed
    <3>2. Normal(obj').dir = Normal(Base).dir
      BY <2>1, <3>1, RegionFacts
    <3>3. QED
      BY <1>9, <3>1, <3>2 DEF MergeRegion, Return, Pressed
  <2>2. CASE Return
    BY <1>9, <2>2 DEF MergeRegion, Return, Pressed
  <2> QED
    BY <1>9, <2>1, <2>2 DEF MergeRegion
<1>10. CASE UserStep
  BY <1>10 DEF UserStep, Show, Save, Peek, CommitRegion, TypeDir, Begin, Pressed
<1>11. CASE EditFile
  <2>1. UNCHANGED <<savedDir, snapshot, callVars>> /\ pressed \subseteq pressed'
    BY <1>11, EditFacts
  <2>2. file'.kind = "good" => Normal(file'.cfg).dir \in pressed'
    BY <1>11, EditFacts DEF Good, Bad
  <2> QED
    BY <2>1, <2>2 DEF Pressed
<1>12. CASE ToggleLock \/ Crash \/ Restart
  BY <1>12 DEF ToggleLock, Crash, Restart, Pressed
<1> QED
  BY <1>1, <1>2, <1>3, <1>4, <1>5, <1>6, <1>7, <1>8, <1>9, <1>10, <1>11, <1>12
  DEF StoreStep, Surroundings

(* What a configuration keeps, its normal form does; so does what a region *)
(* commit makes of it.                                                     *)
LEMMA KeepsFacts ==
  ASSUME NEW c \in Configs, NEW w, Keeps(c, w)
  PROVE  /\ Keeps(Normal(c), w)
         /\ Keeps([c EXCEPT !.region = TRUE], w) /\ [c EXCEPT !.region = TRUE].region
  BY NormalFacts, RegionFacts DEF Keeps

LEMMA SettingsStay ==
  ASSUME StoreFlags, StoreTypes, Places, Settings, StoreStep \/ UserStep \/ Surroundings
  PROVE  Settings'
<1> USE DEF fileVars, appVars, bounds, history, callVars
<1>1. CASE LoadMissing \/ LoadBad
  <2>1. Keeps(Defaults, Defaults)
    BY DefaultsFacts DEF Keeps
  <2> QED
    BY <1>1, <2>1, DefaultsFacts DEF LoadMissing, LoadBad, Settings
<1>2. CASE LoadFails
  BY <1>2 DEF LoadFails, Settings
<1>3. CASE LoadGood
  <2>1. file.cfg \in Configs /\ file.kind = "good" /\ file' = file /\ obj' = Normal(file.cfg)
        /\ pc' = "loaded" /\ want' = IF lapses # {} THEN Normal(file.cfg) ELSE want
    BY <1>3 DEF LoadGood, StoreTypes
  <2>2. Keeps(file.cfg, want')
    <3>1. CASE lapses # {}
      BY <2>1, <3>1, NormalFacts DEF Keeps
    <3>2. CASE lapses = {}
      BY <2>1, <3>2 DEF Settings
    <3>3. QED
      BY <3>1, <3>2
  <2>3. obj' # NoConfig
    BY <2>1, NormalFacts, DefaultsFacts
  <2> QED
    BY <2>1, <2>2, <2>3, KeepsFacts DEF Settings
<1>4. CASE Backup \/ BackupFails
  <2>1. Keeps(Defaults, Defaults)
    BY DefaultsFacts DEF Keeps
  <2> QED
    BY <1>4, <2>1, DefaultsFacts DEF Backup, BackupFails, Missing, Settings
<1>5. CASE Rewrite
  <2>1. Good(0, Defaults).cfg = Defaults /\ Keeps(Defaults, Defaults) /\ Defaults # NoConfig
    BY DefaultsFacts DEF Good, Keeps
  <2>2. file' = Good(0, Defaults) \/ file' = file
    BY <1>5 DEF Rewrite
  <2>3. pc = "rewrite" /\ obj' = Defaults /\ pc' = "loaded" /\ want' = want
    BY <1>5 DEF Rewrite
  <2>4. lapses' = lapses
    BY <1>5 DEF Rewrite
  <2>5. lapses' = {} => want' = Defaults /\ (file'.kind = "good" => file'.cfg = Defaults)
    BY <2>1, <2>2, <2>3, <2>4 DEF Settings
  <2> QED
    BY <2>1, <2>3, <2>5 DEF Settings
<1>6. CASE WriteTemp \/ WriteFails \/ Peeked
  BY <1>6 DEF WriteTemp, WriteFails, Peeked, Return, Settings
<1>7. CASE Rename
  <2>1. obj \in Configs /\ Normal(obj) \in Configs /\ Normal(Normal(obj)) = Normal(obj)
        /\ Normal(obj).extra = obj.extra /\ Normal(obj).region = obj.region
    BY <1>7, NormalFacts DEF Rename, Places, StoreTypes
  <2>2. file'.cfg = Normal(obj) /\ pc' = "idle" /\ pc = "rename"
    BY <1>7 DEF Rename, Good, Return
  <2>3. ASSUME lapses' = {} PROVE Keeps(Normal(obj), want')
    <3>1. CASE call = "save"
      <4>5. lapses = {} /\ basis = "sound"
        BY <1>7, <2>3, <3>1 DEF Rename
      <4>1. want' = [want EXCEPT !.dir = Normal(obj).dir] /\ want \in Configs
        BY <1>7, <3>1 DEF Rename, StoreTypes
      <4>2. want'.dir = Normal(obj).dir /\ want'.extra = want.extra /\ want'.region = want.region
        BY <4>1 DEF Configs
      <4>3. obj.extra = want.extra /\ (want.region => obj.region)
        BY <2>2, <3>1, <4>5 DEF Settings
      <4>4. QED
        BY <2>1, <4>2, <4>3 DEF Keeps
    <3>2. CASE call = "region"
      <4>5. lapses = {} /\ basis # "stale"
        BY <1>7, <2>3, <3>2 DEF Rename
      <4>1. want' = [want EXCEPT !.region = TRUE] /\ want \in Configs
        BY <1>7, <3>2 DEF Rename, StoreTypes
      <4>2. want'.dir = want.dir /\ want'.extra = want.extra
        BY <4>1 DEF Configs
      <4>3. Keeps(obj, want) /\ obj.region
        BY <2>2, <3>2, <4>5 DEF Settings
      <4>4. QED
        BY <2>1, <4>2, <4>3 DEF Keeps
    <3>3. QED
      BY <1>7, <3>1, <3>2 DEF Rename
  <2> QED
    BY <2>2, <2>3 DEF Settings
<1>8. CASE Shown
  BY <1>8 DEF Shown, Return, Settings
<1>9. CASE MergeSettings
  <2>1. obj' = [Base EXCEPT !.dir = typed, !.region = @ \/ region] /\ typed \in Typed
    BY <1>9 DEF MergeSettings, StoreTypes
  <2>2. Base \in Configs
    BY DefaultsFacts DEF Base, StoreTypes
  <2>3. obj'.extra = Base.extra /\ (Base.region => obj'.region)
    BY <2>1, <2>2 DEF Configs, StoreFlags
  <2>4. lapses = {} /\ basis' = "sound" => Keeps(Base, want)
    BY <1>9 DEF MergeSettings, Base, Basis, Settings
  <2>5. lapses = {} /\ basis' = "sound" => obj'.extra = want.extra /\ (want.region => obj'.region)
    BY <2>3, <2>4 DEF Keeps
  <2> QED
    BY <1>9, <2>5 DEF MergeSettings, Settings
<1>10. CASE MergeRegion
  <2>1. CASE /\ obj # NoConfig \/ snapshot # NoConfig
             /\ obj' = [Base EXCEPT !.region = TRUE] /\ pc' = "write"
             /\ basis' = Basis /\ call' = call
    <3>1. Base \in Configs
      BY DefaultsFacts DEF Base, StoreTypes
    <3>2. lapses = {} /\ basis' # "stale" => Keeps(Base, want)
      BY <1>10, <2>1 DEF MergeRegion, Base, Basis, Settings
    <3>3. lapses = {} /\ basis' # "stale" => Keeps(obj', want) /\ obj'.region
      BY <2>1, <3>1, <3>2, KeepsFacts
    <3>4. QED
      BY <1>10, <2>1, <3>3 DEF MergeRegion, Settings
  <2>2. CASE Return
    BY <1>10, <2>2 DEF MergeRegion, Return, Settings
  <2> QED
    BY <1>10, <2>1, <2>2 DEF MergeRegion
<1>11. CASE UserStep
  BY <1>11 DEF UserStep, Show, Save, Peek, CommitRegion, TypeDir, Begin, Settings
<1>12. CASE EditFile
  <2>1. lapses' = (IF pc \in {"idle", "down"} THEN {} ELSE {"race"}) /\ pc' = pc
    BY <1>12 DEF EditFile
  <2>2. lapses' = {} => pc' \in {"idle", "down"}
    BY <2>1
  <2>3. file'.kind = "good" => Keeps(file'.cfg, want')
    <3>1. CASE file' = Bad(edits')
      BY <3>1 DEF Bad
    <3>2. ASSUME NEW c \in Configs, file' = Good(edits', c), ~c.region, want' = Normal(c)
          PROVE  Keeps(file'.cfg, want')
      BY <3>2, NormalFacts DEF Good, Keeps
    <3>3. QED
      BY <1>12, <3>1, <3>2, EditFacts
  <2> QED
    BY <2>2, <2>3 DEF Settings
<1>13. CASE ToggleLock \/ Crash \/ Restart
  BY <1>13 DEF ToggleLock, Crash, Restart, Settings
<1> QED
  BY <1>1, <1>2, <1>3, <1>4, <1>5, <1>6, <1>7, <1>8, <1>9, <1>10, <1>11, <1>12, <1>13
  DEF StoreStep, Surroundings

LEMMA StoreInductive == StoreInv /\ [StoreNext]_storeVars => StoreInv'
<1> SUFFICES ASSUME StoreInv, [StoreNext]_storeVars PROVE StoreInv'
  OBVIOUS
<1>1. CASE StoreNext
  BY <1>1, FlagsStay, TypesStay, PlacesStay, TightStays, CopiesStay, PressedStay, SettingsStay
  DEF StoreNext, StoreInv
<1>2. CASE UNCHANGED storeVars
  BY <1>2 DEF storeVars, fileVars, appVars, bounds, history, callVars, StoreInv, StoreFlags,
              StoreTypes, Places, BackupsTight, Copies, Pressed, Settings
<1> QED
  BY <1>1, <1>2

LEMMA StoreInvariance == StoreSpec => []StoreInv
BY StoreInitially, StoreInductive, PTL DEF StoreSpec

(* No step of a save or a heal, no failed write and no crash leaves a torn *)
(* config.json, and what a load found unreadable survives its heal, for    *)
(* any number of editor writes and crashes: a backup name is always free.  *)
THEOREM FileStaysSafe == StoreSpec => []FileIsSafe
<1>1. StoreInv => FileIsSafe
  BY DEF StoreInv, StoreTypes, Places, Copies, FileIsSafe, AppNeverTears, NeverTheOnlyCopy
<1> QED
  BY <1>1, StoreInvariance, PTL

(* A readable file holds what was last saved, hand-edited or committed,    *)
(* unless a write raced the editor, went onto a snapshot older than what   *)
(* the editor wrote, or saveConfig had nothing to merge onto; a region     *)
(* commit with nothing to merge onto loses nothing.                        *)
THEOREM SettingsStaySaved == StoreSpec => []NoSettingLost
<1>1. StoreInv => NoSettingLost
  BY DEF StoreInv, Settings, NoSettingLost
<1> QED
  BY <1>1, StoreInvariance, PTL

(* What was only typed reaches neither the file nor a capture.             *)
THEOREM TypingIsNoSave == StoreSpec => []UnsavedEditsStayOut
<1>1. StoreInv => UnsavedEditsStayOut
  BY DEF StoreInv, Pressed, UnsavedEditsStayOut, Destination
<1> QED
  BY <1>1, StoreInvariance, PTL
=============================================================================

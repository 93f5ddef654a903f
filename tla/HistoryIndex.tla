---------------------------- MODULE HistoryIndex ----------------------------
(***************************************************************************)
(* crates/snapforge-storage/src/history.rs: the index file history.json    *)
(* and the thumbnails beside it.  Any thread adds (after a capture),       *)
(* removes or clears, each under HISTORY_LOCK; one worker makes the        *)
(* thumbnails from a queue.  The process may crash between any two steps.  *)
(***************************************************************************)
EXTENDS Integers, Sequences, FiniteSets, SequencesExt

CONSTANTS
  Paths,        \* files that may be captured
  Clients,      \* threads that call into the history
  MaxEntries,   \* MAX_ENTRIES
  MaxCaptures,  \* bound: captures made
  MaxCrashes,   \* bound: crashes of the process
  Nobody

ASSUME IndexAssumption ==
  /\ MaxEntries \in Nat \ {0} /\ MaxCaptures \in Nat /\ MaxCrashes \in Nat
  /\ Nobody \notin Clients

VARIABLES
  index,     \* the paths in history.json, oldest first; <<>> also when it is
             \* missing or unreadable
  readable,  \* history.json parses, or is missing
  thumb,     \* version of the image each thumbnail shows, 0: no thumbnail
  image,     \* version of the file at each path, 0: no file
  latest,    \* version of the last capture made to each path
  lock,      \* who holds HISTORY_LOCK
  pc, op, snap,     \* per client: where it is, its call, its copy of the index
  queue,            \* paths of the ThumbJobs not yet taken
  wpc, job, pixels, \* the worker: where it is, its path, the version decoded
  crashes,
  excused,   \* history: thumbnails whose job failed or died in a crash
  strays     \* history: orphans a crash or an unreadable index left

calls  == <<pc, op, snap>>
worker == <<wpc, job, pixels>>
files  == <<image, latest>>
past   == <<crashes, excused, strays>>
vars   == <<index, readable, thumb, files, lock, calls, queue, worker, past>>

Indexed == {index[i] : i \in DOMAIN index}
Thumbs  == {p \in Paths : thumb[p] # 0}
Captures(f) == FoldFunctionOnSet(LAMBDA a, b : a + b, 0, f, Paths)
NoOp == [kind |-> "none"]

(* The process starts on an empty index, or on an unreadable one whose     *)
(* thumbnails are still there.                                             *)
Init ==
  /\ index = <<>> /\ readable \in BOOLEAN
  /\ strays \in SUBSET Paths /\ (readable => strays = {})
  /\ latest = [p \in Paths |-> IF p \in strays THEN 1 ELSE 0]
  /\ image = latest /\ thumb = latest
  /\ lock = Nobody
  /\ pc = [c \in Clients |-> "idle"] /\ op = [c \in Clients |-> NoOp]
  /\ snap = [c \in Clients |-> <<>>]
  /\ queue = <<>> /\ wpc = "idle" /\ job = Nobody /\ pixels = 0
  /\ crashes = 0 /\ excused = {}

-----------------------------------------------------------------------------
(* What a call makes of the index it has loaded.                           *)
Log == INSTANCE History WITH entries <- index

Result(o, es) ==
  CASE o.kind = "add"    -> Log!Added(es, o.path)
    [] o.kind = "remove" -> Log!Without(es, o.path)
    [] o.kind = "clear"  -> <<>>

-----------------------------------------------------------------------------
(* A client.                                                               *)

At(c, l) == pc[c] = l
Goto(c, l) == pc' = [pc EXCEPT ![c] = l]
(* The call returns; its locals are gone.                                  *)
Return(c) ==
  /\ Goto(c, "idle")
  /\ op' = [op EXCEPT ![c] = NoOp]
  /\ snap' = [snap EXCEPT ![c] = <<>>]

(* A capture has written its file under a fresh name and is to be indexed. *)
Capture(c, p) ==
  /\ At(c, "idle") /\ image[p] = 0 /\ Captures(latest) < MaxCaptures
  /\ latest' = [latest EXCEPT ![p] = @ + 1]
  /\ image' = [image EXCEPT ![p] = latest'[p]]
  /\ Goto(c, "called")
  /\ op' = [op EXCEPT ![c] = [kind |-> "add", path |-> p]]
  /\ UNCHANGED <<index, readable, thumb, lock, snap, queue, worker, past>>

(* A removal or clearing starts by taking the lock.                        *)
Call(c, o) ==
  /\ At(c, "idle")
  /\ lock = Nobody /\ lock' = c
  /\ Goto(c, "locked")
  /\ op' = [op EXCEPT ![c] = o]
  /\ UNCHANGED <<index, readable, thumb, files, snap, queue, worker, past>>

RemoveEntry(c, p) == Call(c, [kind |-> "remove", path |-> p])
ClearAll(c)       == Call(c, [kind |-> "clear"])

(* Mutant: no lock.                                                        *)
AcquireAlways(c) ==
  /\ At(c, "called")
  /\ lock' = c
  /\ Goto(c, "locked")
  /\ UNCHANGED <<index, readable, thumb, files, op, snap, queue, worker, past>>

Acquire(c) ==
  /\ At(c, "called")
  /\ lock = Nobody /\ lock' = c
  /\ Goto(c, "locked")
  /\ UNCHANGED <<index, readable, thumb, files, op, snap, queue, worker, past>>

(* load_from: an unreadable file is moved aside, if that works.            *)
Heal == readable' \in {readable, TRUE}

(* Mutant: thumbnails of entries to be evicted go before the save.         *)
LoadAndEvict(c) ==
  /\ At(c, "locked") /\ op[c].kind # "clear"
  /\ Heal
  /\ snap' = [snap EXCEPT ![c] = index]
  /\ Goto(c, "loaded")
  /\ thumb' = [p \in Paths |-> IF p \in Indexed
                               /\ \A i \in DOMAIN Result(op[c], index) : Result(op[c], index)[i] # p
                               THEN 0 ELSE thumb[p]]
  /\ UNCHANGED <<index, files, lock, op, queue, worker, past>>

Load(c) ==
  /\ At(c, "locked") /\ op[c].kind # "clear"
  /\ Heal
  /\ snap' = [snap EXCEPT ![c] = index]
  /\ Goto(c, "loaded")
  /\ UNCHANGED <<index, thumb, files, lock, op, queue, worker, past>>

(* clear does not load.                                                    *)
SkipLoad(c) ==
  /\ At(c, "locked") /\ op[c].kind = "clear"
  /\ Goto(c, "loaded")
  /\ UNCHANGED <<index, readable, thumb, files, lock, op, snap, queue, worker, past>>

(* save_in: temp file, fsync, rename - all or nothing.                     *)
Save(c) ==
  /\ At(c, "loaded")
  /\ op[c].kind = "remove" => \E i \in DOMAIN snap[c] : snap[c][i] = op[c].path
  /\ index' = Result(op[c], snap[c])
  /\ readable' = TRUE
  /\ snap' = [snap EXCEPT ![c] = index']
  /\ Goto(c, "saved")
  /\ UNCHANGED <<thumb, files, lock, op, queue, worker, past>>

(* The load or the save fails, or there is nothing to remove.              *)
GiveUp(c) ==
  /\ pc[c] \in {"locked", "loaded"}
  /\ lock' = Nobody
  /\ Return(c)
  /\ excused' = IF op[c].kind = "add" THEN excused \cup {op[c].path} ELSE excused
  /\ UNCHANGED <<index, readable, thumb, files, queue, worker, crashes, strays>>

(* After the save: a removed entry's thumbnail goes; add and clear sweep   *)
(* every thumbnail the saved index does not name.  Then unlock.            *)
Tidy(c) ==
  LET live == {snap[c][i] : i \in DOMAIN snap[c]}
      doomed == IF op[c].kind = "remove" THEN {op[c].path} ELSE Paths \ live
  IN /\ At(c, "saved")
     /\ thumb' = [p \in Paths |-> IF p \in doomed THEN 0 ELSE thumb[p]]
     /\ strays' = strays \ doomed
     /\ lock' = Nobody
     /\ IF op[c].kind = "add"
        THEN Goto(c, "unlocked") /\ UNCHANGED <<op, snap>> ELSE Return(c)
     /\ UNCHANGED <<index, readable, files, queue, worker, crashes, excused>>

EnqueueThumbnail(c) ==
  /\ At(c, "unlocked")
  /\ queue' = Append(queue, op[c].path)
  /\ Return(c)
  /\ UNCHANGED <<index, readable, thumb, files, lock, worker, past>>

(* history_list loads, under the lock, and so may heal.                    *)
ListEntries ==
  /\ lock = Nobody /\ ~readable
  /\ Heal
  /\ UNCHANGED <<index, thumb, files, lock, calls, queue, worker, past>>

-----------------------------------------------------------------------------
(* The thumbnail worker.  Each of its two checks holds the lock while it   *)
(* looks, and nobody can look in between: one step when the lock is free.  *)

JobOver == wpc' = "idle" /\ job' = Nobody /\ pixels' = 0

TakeJob ==
  /\ wpc = "idle" /\ queue # <<>>
  /\ job' = Head(queue) /\ queue' = Tail(queue)
  /\ wpc' = "check"
  /\ UNCHANGED <<index, readable, thumb, files, lock, calls, pixels, past>>

(* Mutant: a thumbnail that is there already is not made again.            *)
PreCheckForThumb ==
  /\ wpc = "check" /\ lock = Nobody
  /\ Heal
  /\ IF job \in Indexed /\ thumb[job] = 0
     THEN wpc' = "decode" /\ UNCHANGED <<job, pixels>> ELSE JobOver
  /\ UNCHANGED <<index, thumb, files, lock, calls, queue, past>>

PreCheck ==
  /\ wpc = "check" /\ lock = Nobody
  /\ Heal
  /\ IF job \in Indexed THEN wpc' = "decode" /\ UNCHANGED <<job, pixels>> ELSE JobOver
  /\ UNCHANGED <<index, thumb, files, lock, calls, queue, past>>

Decode ==
  /\ wpc = "decode" /\ image[job] # 0
  /\ pixels' = image[job]
  /\ wpc' = "install"
  /\ UNCHANGED <<index, readable, thumb, files, lock, calls, queue, job, past>>

(* The file is gone or no image, or the temp file cannot be written or     *)
(* renamed.                                                                *)
JobFails ==
  /\ wpc \in {"decode", "install"}
  /\ JobOver
  /\ excused' = excused \cup {job}
  /\ UNCHANGED <<index, readable, thumb, files, lock, calls, queue, crashes, strays>>

(* Mutant: no second look at the index.                                    *)
InstallUnchecked ==
  /\ wpc = "install" /\ lock = Nobody
  /\ thumb' = [thumb EXCEPT ![job] = pixels]
  /\ excused' = excused \ {job}
  /\ JobOver
  /\ UNCHANGED <<index, readable, files, lock, calls, queue, crashes, strays>>

(* The second check, and the rename under the same lock.                   *)
Install ==
  /\ wpc = "install" /\ lock = Nobody
  /\ Heal
  /\ IF job \in Indexed
     THEN /\ thumb' = [thumb EXCEPT ![job] = pixels]
          /\ excused' = IF pixels = latest[job] THEN excused \ {job} ELSE excused
     ELSE UNCHANGED <<thumb, excused>>
  /\ JobOver
  /\ UNCHANGED <<index, files, lock, calls, queue, crashes, strays>>

-----------------------------------------------------------------------------
(* The surroundings.                                                       *)

UserDeletesFile(p) ==
  /\ image[p] # 0
  /\ image' = [image EXCEPT ![p] = 0]
  /\ UNCHANGED <<index, readable, thumb, latest, lock, calls, queue, worker, past>>

(* Crash and restart: threads, lock and queue are gone.                    *)
Crash ==
  /\ crashes < MaxCrashes
  /\ crashes' = crashes + 1
  /\ lock' = Nobody
  /\ pc' = [c \in Clients |-> "idle"]
  /\ op' = [c \in Clients |-> NoOp] /\ snap' = [c \in Clients |-> <<>>]
  /\ queue' = <<>> /\ JobOver
  /\ excused' = excused \cup {p \in Paths : thumb[p] # latest[p]}
  /\ strays' = strays \cup (Thumbs \ Indexed)
  /\ UNCHANGED <<index, readable, thumb, files>>

ClientStep(c) ==
  \/ \E p \in Paths : Capture(c, p) \/ RemoveEntry(c, p)
  \/ ClearAll(c)
  \/ Acquire(c) \/ Load(c) \/ SkipLoad(c) \/ Save(c) \/ GiveUp(c)
  \/ Tidy(c) \/ EnqueueThumbnail(c)

Next ==
  \/ \E c \in Clients : ClientStep(c)
  \/ ListEntries
  \/ TakeJob \/ PreCheck \/ Decode \/ JobFails \/ Install
  \/ \E p \in Paths : UserDeletesFile(p)
  \/ Crash

Spec == Init /\ [][Next]_vars
-----------------------------------------------------------------------------
(* Properties.                                                             *)

(* Types; the index holds no path twice and never exceeds its cap.         *)
TypeOK ==
  /\ index \in Seq(Paths) /\ Len(index) <= MaxEntries /\ IsInjective(index)
  /\ readable \in BOOLEAN
  /\ thumb \in [Paths -> Nat] /\ image \in [Paths -> Nat] /\ latest \in [Paths -> Nat]
  /\ lock \in Clients \cup {Nobody}
  /\ pc \in [Clients -> {"idle", "called", "locked", "loaded", "saved", "unlocked"}]
  /\ snap \in [Clients -> Seq(Paths)]
  /\ queue \in Seq(Paths)
  /\ wpc \in {"idle", "check", "decode", "install"}
  /\ strays \subseteq Paths /\ excused \subseteq Paths

(* The index on disk changes only by one whole operation at a time, as     *)
(* History promises: concurrent adds, removes and clears lose nothing and  *)
(* bring nothing back, through any failure or crash.                       *)
NoLostUpdate == Log!Spec

(* Whenever the lock is free every thumbnail belongs to an indexed entry;  *)
(* one that a crash or an unreadable index left over is gone after the     *)
(* next add.                                                               *)
ThumbsTidy == lock = Nobody => Thumbs \subseteq Indexed \cup strays

(* A thumbnail is deleted only when its entry has left the index on disk,  *)
(* so a failed save never costs an indexed entry its thumbnail.            *)
ThumbOutlivesEntry ==
  [][\A p \in Thumbs : thumb'[p] = 0 => p \notin Indexed']_vars

AtRest == (\A c \in Clients : pc[c] = "idle") /\ queue = <<>> /\ wpc = "idle"

(* At rest each indexed entry shows the image last captured to its path -  *)
(* however captures, removals and evictions crossed its jobs - unless that *)
(* image's job failed or was lost in a crash.                              *)
ThumbsFresh ==
  AtRest => \A p \in Indexed \ excused : thumb[p] = latest[p]

(* The thumbnails follow the index: none too many, and none out of date.   *)
ThumbsFollow == ThumbsTidy /\ ThumbsFresh
=============================================================================

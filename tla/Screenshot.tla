---------------------------- MODULE Screenshot -----------------------------
(***************************************************************************)
(* The use cases around a picture: a screenshot (capture, save, copy,      *)
(* index), the save of a picture the overlay has composited, a copy to the *)
(* clipboard alone, and the start of a recording, which reserves its file  *)
(* the same way.  Calls run on any thread of a process that may crash, and *)
(* several of them may have been given one name, since a name is a         *)
(* timestamp.  Names are the suffixes 0, 1, ... tried for it.              *)
(***************************************************************************)
EXTENDS ScreenCapture

CONSTANTS
  MaxNames,      \* bound: names tried (10 000 in the code)
  MaxDeletes,    \* bound: captures deleted in the history window
  MaxCrashes     \* bound: crashes

ASSUME NamesAssumption == MaxNames \in Nat \ {0} /\ MaxDeletes \in Nat /\ MaxCrashes \in Nat

Names == 0 .. MaxNames - 1
NoName == MaxNames
Free == [owner |-> None, state |-> "free"]

VARIABLES
  files,     \* per name: the call that owns the file and what is in it
  tried,     \* per call: the name it tries or holds
  result,    \* per call: what its call returned
  indexed,   \* names in the history index
  stuck,     \* history: calls whose placeholder could not be removed
  deleted,   \* history: calls whose capture the user deleted
  crashes

fileVars == <<files, indexed, stuck, deleted, crashes>>
vars == <<captureVars, fileVars, tried, result>>

\* Shapes of the variables this module adds.
TypeOK ==
  /\ files \in [Names -> [owner: Calls \cup {None}, state: {"free", "empty", "whole", "recording"}]]
  /\ tried \in [Calls -> 0 .. MaxNames]
  /\ result \in [Calls -> {"none", "ok", "error"}]
  /\ indexed \subseteq Names
  /\ stuck \subseteq Calls /\ deleted \subseteq Calls

Init ==
  /\ CaptureInit
  /\ files = [n \in Names |-> Free]
  /\ tried = [c \in Calls |-> 0] /\ result = [c \in Calls |-> "none"]
  /\ indexed = {} /\ stuck = {} /\ deleted = {}
  /\ crashes = 0

Holds(c, state) == [owner |-> c, state |-> state]
CaptureUnchanged == UNCHANGED <<permVars, screenVars, callVars, late, prompts>>

\* The end of a call, and of what was on its stack.
Forgets(c) ==
  /\ target' = [target EXCEPT ![c] = AnyDisplay] /\ image' = [image EXCEPT ![c] = None]
  /\ again' = [again EXCEPT ![c] = FALSE]
  /\ UNCHANGED <<permVars, screenVars, late, prompts>>
Ends(c) == Goto(c, "done") /\ Forgets(c) /\ index' = [index EXCEPT ![c] = 1] /\ UNCHANGED op
Returns(c, r) == Ends(c) /\ result' = [result EXCEPT ![c] = r]

-----------------------------------------------------------------------------
(* A call, from the request to its result. *)

\* A request that is malformed is refused before this, and touches nothing.
Begin(c, kind, i, start) ==
  /\ At(c, "idle") /\ \A d \in Calls : d < c => ~At(d, "idle")
  /\ op' = [op EXCEPT ![c] = kind] /\ index' = [index EXCEPT ![c] = i] /\ Goto(c, start)
  /\ crossed' = IF kind = "record" /\ StaleGrant THEN crossed \cup {c} ELSE crossed
  /\ UNCHANGED <<granted, latch, requested, revokes, screenVars, target, again, image, late, prompts,
                 fileVars, tried, result>>

\* take_screenshot, or a capture for its picture alone, which is decided later.
TakeScreenshot(c, i) == Begin(c, "shot", i, "resolve")
RecordScreen(c, i) == Begin(c, "record", i, "claim")
\* save_prerendered, given its picture, with a path and without.
SavePrerendered(c) == Begin(c, "prerendered", 1, "claim")
CopyImage(c) == Begin(c, "clip", 1, "copy")

\* No picture, an empty one, or a region that misses it: nothing was touched yet.
CaptureFailed(c) == At(c, "failed") /\ Returns(c, "error") /\ UNCHANGED <<fileVars, tried>>

\* export_image: a capture for the picture alone has it, or no room for it.
Export(c) ==
  /\ At(c, "claim") /\ op[c] = "shot" /\ tried[c] = 0 /\ op' = [op EXCEPT ![c] = "grab"]
  /\ \E r \in {"ok", "error"} : result' = [result EXCEPT ![c] = r]
  /\ Goto(c, "done") /\ Forgets(c) /\ index' = [index EXCEPT ![c] = 1]
  /\ UNCHANGED <<fileVars, tried>>

\* save_unique: the picture is encoded, and then claim_unique_path tries
\* create_new of one name after the other.
OpensForWriting(n) == TRUE
CreatesNew(n) == files[n] = Free

Claim(c) ==
  /\ At(c, "claim") /\ tried[c] # NoName /\ CreatesNew(tried[c])
  /\ files' = [files EXCEPT ![tried[c]] = Holds(c, "empty")]
  /\ Goto(c, IF op[c] = "record" THEN "start" ELSE "write")
  /\ Forgets(c) /\ index' = [index EXCEPT ![c] = IF op[c] = "record" THEN @ ELSE 1]
  /\ UNCHANGED <<op, indexed, stuck, deleted, crashes, tried, result>>
NameTaken(c) ==
  /\ At(c, "claim") /\ tried[c] # NoName /\ ~CreatesNew(tried[c])
  /\ tried' = [tried EXCEPT ![c] = @ + 1]
  /\ CaptureUnchanged /\ UNCHANGED <<pc, fileVars, result>>
\* The encoding fails, every name is taken, or the directory refuses a new file.
ClaimFails(c) == At(c, "claim") /\ Returns(c, "error") /\ UNCHANGED <<fileVars, tried>>

\* The picture is written into the placeholder ...
Write(c) ==
  /\ At(c, "write") /\ Goto(c, "finish")
  /\ files' = [files EXCEPT ![tried[c]] = Holds(c, "whole")]
  /\ CaptureUnchanged /\ UNCHANGED <<indexed, stuck, deleted, crashes, tried, result>>

\* ... or that fails, or ffmpeg or the display is not there for a recording:
\* the placeholder is removed, if that works.
LeavesPlaceholder(c) ==
  pc[c] \in {"write", "start"} /\ Returns(c, "error") /\ UNCHANGED <<fileVars, tried>>
GiveUpFile(c) ==
  /\ pc[c] \in {"write", "start"} /\ Returns(c, "error")
  /\ \/ files' = [files EXCEPT ![tried[c]] = Free] /\ UNCHANGED stuck
     \/ stuck' = stuck \cup {c} /\ UNCHANGED files
  /\ UNCHANGED <<indexed, deleted, crashes, tried>>

\* copy_after_save and index_best_effort, each if asked for: a clipboard or an
\* index that fails is logged, and does not fail the save.
CopyOrFail(c) == At(c, "finish") /\ Returns(c, "error") /\ UNCHANGED <<fileVars, tried>>
Finish(c) ==
  /\ At(c, "finish") /\ Returns(c, "ok")
  /\ indexed' \in {indexed, indexed \cup {tried[c]}}
  /\ UNCHANGED <<files, stuck, deleted, crashes, tried>>

\* Without a path the copy is the operation, and its failure is the result.
CopyOnly(c) ==
  /\ At(c, "copy") /\ \E r \in {"ok", "error"} : Returns(c, r)
  /\ UNCHANGED <<fileVars, tried>>

\* start_recording returns; its worker, the same thread here, looks for the
\* display and the file belongs to the recording engine.
StartRecording(c) ==
  /\ At(c, "start") /\ Goto(c, "resolve")
  /\ files' = [files EXCEPT ![tried[c]] = Holds(c, "recording")]
  /\ result' = [result EXCEPT ![c] = "ok"]
  /\ CaptureUnchanged /\ UNCHANGED <<indexed, stuck, deleted, crashes, tried>>
WorkerOver(c) == At(c, "over") /\ Ends(c) /\ UNCHANGED <<fileVars, tried, result>>

-----------------------------------------------------------------------------
(* The surroundings. *)

\* A finished capture is deleted in the history window, entry and file.
Delete(n) ==
  /\ files[n].state = "whole" /\ n \in indexed
  /\ Cardinality(deleted) < MaxDeletes /\ deleted' = deleted \cup {files[n].owner}
  /\ files' = [files EXCEPT ![n] = Free] /\ indexed' = indexed \ {n}
  /\ UNCHANGED <<captureVars, stuck, crashes, tried, result>>

\* The process dies and is started again: threads and statics are gone, the
\* directory, the index and the clipboard stay.
Crash ==
  /\ crashes < MaxCrashes /\ crashes' = crashes + 1
  /\ latch' = FALSE /\ requested' = FALSE /\ prompts' = 0 /\ crossed' = {} /\ late' = {}
  /\ pc' = [c \in Calls |-> IF At(c, "idle") THEN "idle" ELSE "done"]
  /\ result' = [c \in Calls |-> "none"] /\ image' = [c \in Calls |-> None]
  /\ index' = [c \in Calls |-> 1] /\ target' = [c \in Calls |-> AnyDisplay]
  /\ again' = [c \in Calls |-> FALSE] /\ tried' = [c \in Calls |-> 0]
  /\ op' = [c \in Calls |-> "none"]
  /\ UNCHANGED <<granted, revokes, screenVars, files, indexed, stuck, deleted>>

CallStep(c) ==
  \/ CaptureStep(c) /\ UNCHANGED <<fileVars, tried, result>>
  \/ CaptureFailed(c) \/ Export(c) \/ Claim(c) \/ NameTaken(c) \/ ClaimFails(c)
  \/ Write(c) \/ GiveUpFile(c) \/ Finish(c) \/ CopyOnly(c)
  \/ StartRecording(c) \/ WorkerOver(c)

Request(c) ==
  \/ \E i \in 1 .. 2 : TakeScreenshot(c, i) \/ RecordScreen(c, i)
  \/ SavePrerendered(c) \/ CopyImage(c)
Next ==
  \/ \E c \in Calls : Request(c) \/ CallStep(c)
  \/ ScreenStep /\ UNCHANGED <<fileVars, tried, result>>
  \/ \E n \in Names : Delete(n)
  \/ Crash

Spec == Init /\ [][Next]_vars

-----------------------------------------------------------------------------
(* What the use cases promise. *)

\* Two calls with one name, in one process or after a crash, never touch each
\* other's file: a file changes hands only through a free name, and a capture
\* goes away only because the user deletes it.
NothingOverwritten ==
  [][\A n \in Names : files[n] # Free /\ files'[n] # files[n] =>
       \/ files'[n].owner = files[n].owner
       \/ files'[n] = Free /\ (files[n].state = "empty" \/ deleted' # deleted)]_vars

\* A result can be believed.  Success names the caller's own complete file,
\* unless the user has deleted it since; an error leaves no file of the call,
\* unless the placeholder could not be removed, so a picture once on disk is
\* never reported lost because the clipboard or the index failed; and the
\* index holds only complete captures.
ResultsTrue ==
  /\ \A c \in Calls : result[c] = "ok" /\ op[c] \in {"shot", "prerendered"} =>
       files[tried[c]] = Holds(c, "whole") \/ c \in deleted
  /\ \A c \in Calls : result[c] = "error" /\ c \notin stuck =>
       \A n \in Names : files[n].owner # c
  /\ \A n \in indexed : files[n].state = "whole"
=============================================================================

------------------------- MODULE RecordingLifecycle -------------------------
(***************************************************************************)
(* What one recording promises to the code that owns its handle, with the *)
(* worker thread, ffmpeg and every deadline left out.  RecordingEngine is  *)
(* shown to implement it.                                                  *)
(*                                                                         *)
(* The promise: a recording is begun once; while it is not over it may be  *)
(* paused and resumed; over is final; exactly one verdict is given, and    *)
(* never before the recording is over; "ok" is given only for a finished   *)
(* file; after the verdict nothing writes the file any more, an unused     *)
(* placeholder is the only thing removed and only after an error, and only *)
(* a finished file of a successful recording enters the history index.     *)
(***************************************************************************)

VARIABLES
  phase,    \* "idle", "recording", "paused" or "over"
  verdict,  \* "none" until stop() returns; "unheard" when the handle is dropped
  file,     \* the output path: "none", "empty", "partial" or "complete"
  indexed   \* the file has an entry in the history index

vars == <<phase, verdict, file, indexed>>

Init ==
  /\ phase = "idle"
  /\ verdict = "none"
  /\ file = "none"
  /\ indexed = FALSE

(* start_recording returned a handle: the output name is claimed by an     *)
(* empty placeholder.                                                      *)
Begin ==
  /\ phase = "idle"
  /\ phase' = "recording"
  /\ file' = "empty"
  /\ UNCHANGED <<verdict, indexed>>

(* start_recording failed: no handle, and no placeholder left behind.      *)
BeginFails ==
  /\ phase = "idle"
  /\ phase' = "over"
  /\ verdict' = "error"
  /\ UNCHANGED <<file, indexed>>

Pause ==
  /\ phase = "recording"
  /\ phase' = "paused"
  /\ UNCHANGED <<verdict, file, indexed>>

Resume ==
  /\ phase = "paused"
  /\ phase' = "recording"
  /\ UNCHANGED <<verdict, file, indexed>>

(* The encoder makes progress.  There is none after the verdict.           *)
Grow ==
  /\ verdict = "none"
  /\ \/ file = "empty" /\ file' \in {"partial", "complete"}
     \/ file = "partial" /\ file' = "complete"
  /\ UNCHANGED <<phase, verdict, indexed>>

(* The recording ends, because it was asked to or because it failed.       *)
Halt ==
  /\ phase \in {"recording", "paused"}
  /\ phase' = "over"
  /\ UNCHANGED <<verdict, file, indexed>>

Return ==
  /\ phase = "over"
  /\ verdict = "none"
  /\ \/ verdict' \in {"error", "unheard"}
     \/ verdict' = "ok" /\ file = "complete"
  /\ UNCHANGED <<phase, file, indexed>>

Discard ==
  /\ verdict = "error"
  /\ file = "empty"
  /\ file' = "none"
  /\ UNCHANGED <<phase, verdict, indexed>>

Index ==
  /\ verdict = "ok"
  /\ indexed' = TRUE
  /\ UNCHANGED <<phase, verdict, file>>

Next ==
  \/ Begin
  \/ BeginFails
  \/ Pause
  \/ Resume
  \/ Grow
  \/ Halt
  \/ Return
  \/ Discard
  \/ Index

Spec == Init /\ [][Next]_vars
=============================================================================

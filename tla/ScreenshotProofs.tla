--------------------------- MODULE ScreenshotProofs ---------------------------
(***************************************************************************)
(* For any number of calls, names, displays, deletions and crashes: a      *)
(* picture is of the display that was asked for, the dialogs are bounded,  *)
(* no file is overwritten, and what a call returns is true of the disk.    *)
(***************************************************************************)
EXTENDS Screenshot, FiniteSetTheorems, TLAPS

Capturing == {"resolve", "preflight", "clear", "query", "content", "denied",
              "picture", "fallback"}
Labels == Capturing \cup {"idle", "claim", "failed", "write", "start", "finish",
                          "copy", "over", "done"}
Recording == {"claim", "start", "resolve", "query", "content", "denied", "over", "done"}
Kinds == {"none", "shot", "record", "prerendered", "clip", "grab"}

(* Where the calls are and what they run.                                  *)
Places == pc \in [Calls -> Labels] /\ op \in [Calls -> Kinds]

(* A name that is nobody's is free, and a call has at most one name.       *)
Owners ==
  /\ \A n \in Names : files[n].owner = None <=> files[n] = Free
  /\ \A m, n \in Names : files[m].owner = files[n].owner /\ files[n].owner # None => m = n

NoFile(c) == \A n \in Names : files[n].owner # c
HasFile(c, state) == tried[c] \in Names /\ files[tried[c]] = Holds(c, state)

(* What the place a call has reached says about its file.                  *)
Phase(c) ==
  /\ pc[c] \in {"idle", "claim", "copy"} => NoFile(c)
  /\ pc[c] \in Capturing \cup {"failed"} /\ op[c] # "record" => NoFile(c)
  /\ pc[c] \in {"write", "start"} => HasFile(c, "empty")
  /\ pc[c] = "finish" => HasFile(c, "whole")
  /\ pc[c] = "start" => op[c] = "record"
  /\ pc[c] = "copy" => op[c] = "clip"
  /\ op[c] = "record" => pc[c] \in Recording

(* What its result says, and that only a recording goes on after one.      *)
Answer(c) ==
  /\ result[c] # "none" => pc[c] = "done" \/ (op[c] = "record" /\ result[c] = "ok")
  /\ result[c] = "ok" /\ op[c] \in {"shot", "prerendered"} =>
       HasFile(c, "whole") \/ c \in deleted
  /\ result[c] = "error" /\ c \notin stuck => NoFile(c)

(* Only the complete captures of calls that are over are in the index.     *)
Index ==
  \A n \in indexed : /\ files[n].state = "whole" /\ files[n].owner \in Calls
                     /\ pc[files[n].owner] = "done"

(* A deleted capture was the only file of a call that is over.             *)
Deleted == \A c \in deleted : pc[c] = "done" /\ NoFile(c)

FilesInv == /\ TypeOK /\ Places /\ Owners /\ Index /\ Deleted
            /\ \A c \in Calls : Phase(c) /\ Answer(c)

(* A call has a picture only between its first attempt and its use.        *)
ImageInv ==
  /\ DOMAIN target = Calls /\ DOMAIN image = Calls
  /\ \A c \in Calls : image[c] # None =>
       /\ pc[c] \in {"fallback", "claim"}
       /\ image[c].of = target[c] /\ image[c].call = c

IInv == FilesInv /\ ImageInv

(* Nobody has begun: there is no file, no result and no picture.           *)
LEMMA InitEstablishes == Init => IInv
<1> SUFFICES ASSUME Init PROVE IInv
  OBVIOUS
<1>1. \A n \in Names : files[n] = Free
  BY DEF Init
<1>2. \A c \in Calls : NoFile(c)
  BY <1>1, NoneAssumption DEF NoFile, Free
<1>3. TypeOK /\ Places
  <2>1. TypeOK
    BY NamesAssumption DEF Init, TypeOK, Free, Names
  <2>2. Places
    BY DEF Init, CaptureInit, Places, Labels, Capturing, Kinds
  <2>3. QED
    BY <2>1, <2>2
<1>4. Owners /\ Index /\ Deleted
  BY <1>1 DEF Init, Owners, Index, Deleted, Free
<1>5. \A c \in Calls : Phase(c) /\ Answer(c)
  BY <1>2 DEF Init, CaptureInit, Phase, Answer, Capturing
<1>6. ImageInv
  BY DEF Init, CaptureInit, ImageInv
<1>7. QED
  BY <1>3, <1>4, <1>5, <1>6 DEF IInv, FilesInv

(* A capture moves one call, between places where it has no file, and      *)
(* keeps a recording to the places it shares with a capture.               *)
LEMMA CaptureMoves ==
  ASSUME Places, NEW c \in Calls, CaptureStep(c)
  PROVE  /\ op' = op
         /\ pc' \in [Calls -> Labels]
         /\ \A d \in Calls : d # c => pc'[d] = pc[d]
         /\ pc[c] \in Capturing
         /\ pc'[c] \in Capturing \cup {"claim", "failed", "over"}
         /\ pc[c] \in Recording /\ op[c] = "record" =>
              pc'[c] \in Recording \ {"claim", "start", "done"}
<1> USE DEF Places, Capturing, Labels, Recording, Goto, At, permVars, screenVars,
            callVars
<1>1. CASE Resolve(c) \/ Preflight(c) \/ ClearLatch(c) \/ Ask(c)
  BY <1>1 DEF Resolve, Preflight, ClearLatch, Ask
<1>2. CASE DontAsk(c) \/ StreamRefused(c) \/ LatchDenial(c)
  BY <1>2 DEF DontAsk, StreamRefused, LatchDenial, NextAttempt
<1>3. CASE ContentArrives(c) \/ ContentMissing(c) \/ PictureMissing(c)
  BY <1>3 DEF ContentArrives, ContentMissing, PictureMissing
<1>4. CASE PictureArrives(c) \/ Fallback(c)
  <2>1. PICK l \in {"fallback", "claim", "failed"} : pc' = [pc EXCEPT ![c] = l]
    BY <1>4 DEF PictureArrives, Fallback
  <2>2. op' = op /\ pc[c] \in {"picture", "fallback"}
    BY <1>4 DEF PictureArrives, Fallback
  <2>3. QED
    BY <2>1, <2>2
<1>5. QED
  BY <1>1, <1>2, <1>3, <1>4 DEF CaptureStep

(* A capture touches no file.                                              *)
LEMMA CaptureKeepsFiles ==
  ASSUME FilesInv, NEW c \in Calls, CaptureStep(c), UNCHANGED <<fileVars, tried, result>>
  PROVE  FilesInv'
<1> USE DEF FilesInv, fileVars
<1>1. /\ op' = op
      /\ pc' \in [Calls -> Labels]
      /\ \A d \in Calls : d # c => pc'[d] = pc[d]
      /\ pc[c] \in Capturing
      /\ pc'[c] \in Capturing \cup {"claim", "failed", "over"}
      /\ pc[c] \in Recording /\ op[c] = "record" =>
           pc'[c] \in Recording \ {"claim", "start", "done"}
  BY CaptureMoves
<1>2. TypeOK' /\ Places' /\ Owners'
  BY <1>1 DEF TypeOK, Places, Owners
<1>3. Index'
  BY <1>1 DEF Index, Capturing
<1>4. Deleted'
  BY <1>1 DEF Deleted, Capturing, NoFile, TypeOK
<1>5. ASSUME NEW d \in Calls PROVE Phase(d)' /\ Answer(d)'
  <2>1. CASE d # c
    <3>1. Phase(d)'
      BY <1>1, <2>1 DEF Phase, NoFile, HasFile, Holds
    <3>2. Answer(d)'
      BY <1>1, <2>1 DEF Answer, NoFile, HasFile, Holds
    <3>3. QED
      BY <3>1, <3>2
  <2>2. CASE d = c
    <3>1. Phase(c)'
      BY <1>1 DEF Phase, NoFile, Capturing, Recording
    <3>2. Answer(c)'
      BY <1>1 DEF Answer, NoFile, HasFile, Holds, Capturing
    <3>3. QED
      BY <2>2, <3>1, <3>2
  <2>3. QED
    BY <2>1, <2>2
<1>6. QED
  BY <1>2, <1>3, <1>4, <1>5

(* A call keeps its part of the invariant while others leave its file be,  *)
(* or when it is over and its file is deleted.                             *)
LEMMA PartKept ==
  ASSUME FilesInv, NEW d \in Calls,
         pc'[d] = pc[d], op'[d] = op[d], tried'[d] = tried[d], result'[d] = result[d],
         deleted \subseteq deleted', stuck \subseteq stuck',
         \A n \in Names : \/ files'[n] = files[n]
                          \/ /\ files'[n].owner # d
                             /\ files[n].owner = d => pc[d] = "done" /\ d \in deleted'
  PROVE  Phase(d)' /\ Answer(d)'
<1> USE DEF FilesInv
<1>1. NoFile(d) => NoFile(d)'
  BY DEF NoFile
<1>2. ASSUME NEW state, HasFile(d, state), pc[d] # "done" \/ d \notin deleted'
      PROVE  HasFile(d, state)'
  BY <1>2 DEF HasFile, Holds
<1>3. Phase(d)'
  BY <1>1, <1>2 DEF Phase, Capturing
<1>4. Answer(d)'
  <2>1. Answer(d)
    OBVIOUS
  <2>2. CASE result[d] = "ok" /\ op[d] \in {"shot", "prerendered"}
    BY <1>2, <2>1, <2>2 DEF Answer
  <2>3. QED
    BY <1>1, <2>1, <2>2 DEF Answer
<1>5. QED
  BY <1>3, <1>4

(* A step of one call that is not over, and touches only its own file and  *)
(* names that are nobody's.                                                *)
LEMMA OneCallMoves ==
  ASSUME FilesInv, NEW c \in Calls, pc[c] # "done",
         \A d \in Calls : d # c => /\ pc'[d] = pc[d] /\ op'[d] = op[d]
                                   /\ tried'[d] = tried[d] /\ result'[d] = result[d],
         deleted' = deleted, stuck \subseteq stuck',
         \A n \in Names : \/ files'[n] = files[n]
                          \/ files[n].owner \in {c, None} /\ files'[n].owner \in {c, None},
         TypeOK', Places', Owners', Index', Phase(c)', Answer(c)'
  PROVE  FilesInv'
<1> USE NoneAssumption
<1>1. Deleted'
  BY DEF FilesInv, Deleted, NoFile, TypeOK
<1>2. ASSUME NEW d \in Calls PROVE Phase(d)' /\ Answer(d)'
  <2>1. CASE d # c
    BY <2>1, PartKept
  <2>2. QED
    BY <2>1
<1>3. QED
  BY <1>1, <1>2 DEF FilesInv

(* Such a step with no file, where the call has none, or at its end with a *)
(* recording's.                                                            *)
LEMMA QuietStepKeeps ==
  ASSUME FilesInv, NEW c \in Calls, NEW l \in Labels, NEW r \in {"none", "ok", "error"},
         pc[c] # "done", UNCHANGED fileVars,
         pc' = [pc EXCEPT ![c] = l], result' = [result EXCEPT ![c] = r],
         op' \in [Calls -> Kinds], \A d \in Calls : d # c => op'[d] = op[d],
         tried' \in [Calls -> 0 .. MaxNames], \A d \in Calls : d # c => tried'[d] = tried[d],
         Phase(c)', Answer(c)'
  PROVE  FilesInv'
<1>1. TypeOK' /\ Places'
  BY DEF FilesInv, TypeOK, Places, fileVars
<1>2. Owners' /\ Index'
  BY DEF FilesInv, Owners, Index, Places, fileVars
<1>3. QED
  BY <1>1, <1>2, OneCallMoves DEF FilesInv, Places, TypeOK, fileVars

(* A request takes a call that has no file and no result.                  *)
LEMMA RequestKeeps == ASSUME FilesInv, NEW c \in Calls, Request(c) PROVE FilesInv'
<1>1. PICK kind \in Kinds, start \in {"resolve", "claim", "copy"} :
        /\ At(c, "idle")
        /\ op' = [op EXCEPT ![c] = kind] /\ Goto(c, start)
        /\ UNCHANGED <<fileVars, tried, result>>
        /\ start = "copy" => kind = "clip"
        /\ kind = "record" => start = "claim"
  BY DEF Request, TakeScreenshot, RecordScreen, SavePrerendered, CopyImage, Begin, Kinds
<1>2. pc[c] = "idle" /\ pc'[c] = start /\ op'[c] = kind
  BY <1>1 DEF FilesInv, Places, At, Goto
<1>3. result[c] = "none" /\ result' = [result EXCEPT ![c] = "none"]
  <2>1. result[c] = "none"
    BY <1>2 DEF FilesInv, Answer, Recording, Phase
  <2>2. QED
    BY <1>1, <2>1 DEF FilesInv, TypeOK
<1>4. Phase(c)' /\ Answer(c)'
  <2>1. NoFile(c)' /\ result'[c] = "none"
    BY <1>1, <1>2, <1>3 DEF FilesInv, Phase, NoFile, fileVars
  <2>2. QED
    BY <1>1, <1>2, <2>1 DEF Phase, Answer, Capturing, Recording
<1>5. op' \in [Calls -> Kinds] /\ \A d \in Calls : d # c => op'[d] = op[d]
  BY <1>1 DEF FilesInv, Places
<1>6. start \in Labels /\ pc[c] # "done"
  BY <1>2 DEF Labels, Capturing
<1>7. QED
  BY <1>1, <1>3, <1>4, <1>5, <1>6, QuietStepKeeps DEF Goto, FilesInv, TypeOK

(* A call that ends, or looks at the next name, without touching a file.   *)
LEMMA QuietKeeps ==
  ASSUME FilesInv, NEW c \in Calls,
         CaptureFailed(c) \/ Export(c) \/ NameTaken(c) \/ ClaimFails(c) \/ CopyOnly(c)
         \/ WorkerOver(c)
  PROVE  FilesInv'
<1> USE DEF FilesInv, At, Goto
<1>1. CASE Export(c)
  <2>1. PICK r \in {"ok", "error"} :
          /\ pc[c] = "claim" /\ pc' = [pc EXCEPT ![c] = "done"]
          /\ op' = [op EXCEPT ![c] = "grab"] /\ result' = [result EXCEPT ![c] = r]
          /\ UNCHANGED <<fileVars, tried>>
    BY <1>1 DEF Export
  <2>2. pc'[c] = "done" /\ op'[c] = "grab" /\ result'[c] = r
    BY <2>1 DEF Places, TypeOK
  <2>3. NoFile(c)'
    BY <2>1 DEF Phase, NoFile, fileVars
  <2>4. Phase(c)' /\ Answer(c)'
    BY <2>2, <2>3 DEF Phase, Answer, Capturing
  <2>5. op' \in [Calls -> Kinds] /\ \A d \in Calls : d # c => op'[d] = op[d]
    BY <2>1 DEF Places, Kinds
  <2>6. "done" \in Labels
    BY DEF Labels
  <2>7. QED
    BY <2>1, <2>4, <2>5, <2>6, QuietStepKeeps DEF TypeOK
<1>2. CASE NameTaken(c)
  <2>1. /\ pc[c] = "claim" /\ UNCHANGED <<pc, op, result, fileVars>>
        /\ tried' \in [Calls -> 0 .. MaxNames]
        /\ \A d \in Calls : d # c => tried'[d] = tried[d]
    <3>1. /\ pc[c] = "claim" /\ UNCHANGED <<pc, op, result, fileVars>>
          /\ tried[c] # MaxNames /\ tried' = [tried EXCEPT ![c] = tried[c] + 1]
      BY <1>2 DEF NameTaken, CaptureUnchanged, callVars, NoName
    <3>2. tried \in [Calls -> 0 .. MaxNames] /\ MaxNames \in Nat
      BY NamesAssumption DEF TypeOK
    <3>3. tried[c] + 1 \in 0 .. MaxNames
      BY <3>1, <3>2
    <3>4. QED
      BY <3>1, <3>2, <3>3
  <2>2. NoFile(c) /\ (result[c] = "none" \/ op[c] = "record")
    BY <2>1 DEF Phase, Answer
  <2>3. Phase(c)' /\ Answer(c)'
    BY <2>1, <2>2 DEF Phase, Answer, NoFile, Capturing, Recording, fileVars
  <2>4. pc' = [pc EXCEPT ![c] = "claim"] /\ result' = [result EXCEPT ![c] = result[c]]
    BY <2>1 DEF Places, TypeOK
  <2>5. "claim" \in Labels /\ result[c] \in {"none", "ok", "error"}
    BY DEF Labels, TypeOK
  <2>6. QED
    BY <2>1, <2>3, <2>4, <2>5, QuietStepKeeps DEF Places
<1>3. CASE WorkerOver(c)
  <2>1. /\ pc[c] = "over" /\ pc' = [pc EXCEPT ![c] = "done"]
        /\ UNCHANGED <<fileVars, op, tried, result>>
    BY <1>3 DEF WorkerOver, Ends
  <2>2. pc'[c] = "done"
    BY <2>1 DEF Places
  <2>3. Phase(c)' /\ Answer(c)'
    BY <2>1, <2>2 DEF Phase, Answer, NoFile, HasFile, Capturing, Recording, Holds, fileVars
  <2>4. result' = [result EXCEPT ![c] = result[c]]
    BY <2>1 DEF TypeOK
  <2>5. "done" \in Labels /\ result[c] \in {"none", "ok", "error"}
    BY DEF Labels, TypeOK
  <2>6. QED
    BY <2>1, <2>3, <2>4, <2>5, QuietStepKeeps DEF Places, TypeOK
<1>4. CASE CaptureFailed(c) \/ ClaimFails(c) \/ CopyOnly(c)
  <2>1. PICK r \in {"ok", "error"} :
          /\ pc[c] \in {"failed", "claim", "copy"} /\ pc' = [pc EXCEPT ![c] = "done"]
          /\ result' = [result EXCEPT ![c] = r] /\ UNCHANGED <<fileVars, op, tried>>
          /\ r = "ok" => pc[c] = "copy"
    BY <1>4 DEF CaptureFailed, ClaimFails, CopyOnly, Returns, Ends
  <2>2. pc'[c] = "done" /\ result'[c] = r
    BY <2>1 DEF Places, TypeOK
  <2>3. NoFile(c) /\ (r = "ok" => op[c] = "clip")
    BY <2>1 DEF Phase, Recording
  <2>4. Phase(c)' /\ Answer(c)'
    BY <2>1, <2>2, <2>3 DEF Phase, Answer, NoFile, Capturing, Recording, fileVars
  <2>5. "done" \in Labels
    BY DEF Labels
  <2>6. QED
    BY <2>1, <2>4, <2>5, QuietStepKeeps DEF Places, TypeOK
<1>5. QED
  BY <1>1, <1>2, <1>3, <1>4

(* The file a call holds in the state s, and what changing it means.       *)
LEMMA FileStepKeeps ==
  ASSUME FilesInv, NEW c \in Calls, NEW f, NEW l \in Labels, NEW r \in {"none", "ok", "error"},
         tried[c] \in Names,
         \/ pc[c] = "claim" /\ files[tried[c]] = Free
         \/ pc[c] \in {"write", "start"} /\ files[tried[c]] = Holds(c, "empty"),
         f \in {Free, Holds(c, "empty"), Holds(c, "whole"), Holds(c, "recording")},
         files' = [files EXCEPT ![tried[c]] = f],
         pc' = [pc EXCEPT ![c] = l], result' = [result EXCEPT ![c] = r],
         UNCHANGED <<op, tried, indexed, stuck, deleted>>,
         Phase(c)', Answer(c)'
  PROVE  FilesInv'
<1> USE NoneAssumption DEF FilesInv, Free, Holds
<1>1. TypeOK' /\ Places'
  BY DEF TypeOK, Places
<1>2. Owners'
  <2>1. /\ \A n \in Names : files'[n] = IF n = tried[c] THEN f ELSE files[n]
        /\ f.owner \in {c, None} /\ (f.owner = None <=> f = Free)
    BY DEF TypeOK
  <2>2. \A n \in Names : n # tried[c] => files[n].owner # c
    BY DEF Owners, Phase, NoFile
  <2>3. QED
    BY <2>1, <2>2 DEF Owners
<1>3. Index'
  BY DEF Index, TypeOK, Places
<1>4. \A n \in Names : \/ files'[n] = files[n]
                       \/ files[n].owner \in {c, None} /\ files'[n].owner \in {c, None}
  BY DEF TypeOK
<1>5. QED
  BY <1>1, <1>2, <1>3, <1>4, OneCallMoves DEF Places, TypeOK

(* Claiming, writing, handing over and giving up a file.                   *)
LEMMA FileActionsKeep ==
  ASSUME FilesInv, NEW c \in Calls,
         Claim(c) \/ Write(c) \/ GiveUpFile(c) \/ StartRecording(c) \/ Finish(c)
  PROVE  FilesInv'
<1> USE NoneAssumption DEF FilesInv, At, Goto
<1>1. CASE Claim(c)
  <2> DEFINE l == IF op[c] = "record" THEN "start" ELSE "write"
  <2>1. /\ pc[c] = "claim" /\ pc' = [pc EXCEPT ![c] = l]
        /\ files' = [files EXCEPT ![tried[c]] = Holds(c, "empty")]
        /\ tried[c] # NoName /\ files[tried[c]] = Free
        /\ UNCHANGED <<op, tried, result, indexed, stuck, deleted>>
    BY <1>1 DEF Claim, CreatesNew
  <2>2. tried[c] \in Names
    BY <2>1, NamesAssumption DEF TypeOK, Names, NoName
  <2>3. HasFile(c, "empty")' /\ pc'[c] = l /\ l \in Labels
    BY <2>1, <2>2 DEF HasFile, TypeOK, Places, Labels
  <2>4. Phase(c)' /\ Answer(c)'
    <3>1. Phase(c)'
      BY <2>1, <2>3 DEF Phase, Capturing, Recording
    <3>2. result[c] = "none" \/ (op[c] = "record" /\ result[c] = "ok")
      BY <2>1 DEF Answer
    <3>3. Answer(c)'
      BY <2>1, <3>2 DEF Answer
    <3>4. QED
      BY <3>1, <3>3
  <2>5. result' = [result EXCEPT ![c] = result[c]] /\ result[c] \in {"none", "ok", "error"}
    BY <2>1 DEF TypeOK
  <2> HIDE DEF l
  <2>6. QED
    BY <2>1, <2>2, <2>3, <2>4, <2>5, FileStepKeeps
<1>2. CASE Write(c)
  <2>1. /\ pc[c] = "write" /\ pc' = [pc EXCEPT ![c] = "finish"]
        /\ files' = [files EXCEPT ![tried[c]] = Holds(c, "whole")]
        /\ UNCHANGED <<op, tried, result, indexed, stuck, deleted>>
    BY <1>2 DEF Write, CaptureUnchanged, callVars
  <2>2. HasFile(c, "empty") /\ op[c] # "record"
    BY <2>1 DEF Phase, Recording
  <2>3. HasFile(c, "whole")' /\ pc'[c] = "finish"
    BY <2>1, <2>2 DEF HasFile, TypeOK, Places
  <2>4. Phase(c)' /\ Answer(c)'
    BY <2>1, <2>2, <2>3 DEF Phase, Answer, Capturing
  <2>5. result' = [result EXCEPT ![c] = result[c]] /\ result[c] \in {"none", "ok", "error"}
    BY <2>1 DEF TypeOK
  <2>6. "finish" \in Labels
    BY DEF Labels
  <2>7. QED
    BY <2>1, <2>2, <2>4, <2>5, <2>6, FileStepKeeps DEF HasFile
<1>3. CASE StartRecording(c)
  <2>1. /\ pc[c] = "start" /\ pc' = [pc EXCEPT ![c] = "resolve"]
        /\ files' = [files EXCEPT ![tried[c]] = Holds(c, "recording")]
        /\ result' = [result EXCEPT ![c] = "ok"]
        /\ UNCHANGED <<op, tried, indexed, stuck, deleted>>
    BY <1>3 DEF StartRecording, CaptureUnchanged, callVars
  <2>2. HasFile(c, "empty") /\ op[c] = "record"
    BY <2>1 DEF Phase
  <2>3. pc'[c] = "resolve" /\ result'[c] = "ok"
    BY <2>1 DEF TypeOK, Places
  <2>4. Phase(c)' /\ Answer(c)'
    BY <2>1, <2>2, <2>3 DEF Phase, Answer, Capturing, Recording
  <2>5. "resolve" \in Labels
    BY DEF Labels, Capturing
  <2>6. QED
    BY <2>1, <2>2, <2>4, <2>5, FileStepKeeps DEF HasFile
<1>4. CASE GiveUpFile(c)
  <2>1. /\ pc[c] \in {"write", "start"} /\ pc' = [pc EXCEPT ![c] = "done"]
        /\ result' = [result EXCEPT ![c] = "error"]
        /\ UNCHANGED <<op, tried, indexed, deleted>>
    BY <1>4 DEF GiveUpFile, Returns, Ends
  <2>2. HasFile(c, "empty")
    BY <2>1 DEF Phase
  <2>3. pc'[c] = "done" /\ result'[c] = "error" /\ "done" \in Labels
    BY <2>1 DEF TypeOK, Places, Labels
  <2>4. CASE files' = [files EXCEPT ![tried[c]] = Free] /\ UNCHANGED stuck
    <3>1. NoFile(c)'
      BY <2>2, <2>4 DEF NoFile, HasFile, Holds, Owners, TypeOK, Free
    <3>2. Phase(c)' /\ Answer(c)'
      BY <2>1, <2>3, <3>1 DEF Phase, Answer, Capturing, Recording
    <3>3. QED
      BY <2>1, <2>2, <2>3, <2>4, <3>2, FileStepKeeps DEF HasFile
  <2>5. CASE stuck' = stuck \cup {c} /\ UNCHANGED files
    <3>1. Phase(c)' /\ Answer(c)'
      BY <2>1, <2>3, <2>5 DEF Phase, Answer, Capturing, Recording
    <3>2. TypeOK' /\ Places' /\ Owners' /\ Index'
      <4>1. TypeOK' /\ Places'
        BY <2>1, <2>3, <2>5 DEF TypeOK, Places
      <4>2. Owners' /\ Index'
        BY <2>1, <2>5 DEF Owners, Index, Places
      <4>3. QED
        BY <4>1, <4>2
    <3>3. QED
      BY <2>1, <2>5, <3>1, <3>2, OneCallMoves DEF Places, TypeOK
  <2>6. QED
    BY <1>4, <2>4, <2>5 DEF GiveUpFile
<1>5. CASE Finish(c)
  <2>1. /\ pc[c] = "finish" /\ pc' = [pc EXCEPT ![c] = "done"]
        /\ result' = [result EXCEPT ![c] = "ok"]
        /\ UNCHANGED <<op, tried, files, stuck, deleted>>
        /\ indexed' \in {indexed, indexed \cup {tried[c]}}
    BY <1>5 DEF Finish, Returns, Ends
  <2>2. HasFile(c, "whole")
    BY <2>1 DEF Phase
  <2>3. pc'[c] = "done" /\ result'[c] = "ok" /\ "done" \in Labels
    BY <2>1 DEF TypeOK, Places, Labels
  <2>4. Phase(c)' /\ Answer(c)'
    BY <2>1, <2>2, <2>3 DEF Phase, Answer, HasFile, Capturing, Recording
  <2>5. TypeOK' /\ Places'
    BY <2>1, <2>2, <2>3 DEF TypeOK, Places, HasFile
  <2>6. Owners'
    BY <2>1 DEF Owners
  <2>7. Index'
    BY <2>1, <2>2 DEF Index, HasFile, Holds, Places
  <2>8. QED
    BY <2>1, <2>4, <2>5, <2>6, <2>7, OneCallMoves DEF Places, TypeOK
<1>6. QED
  BY <1>1, <1>2, <1>3, <1>4, <1>5

(* Deleting a capture leaves its call, which is over, without a file.      *)
LEMMA DeleteKeeps == ASSUME FilesInv, NEW n \in Names, Delete(n) PROVE FilesInv'
<1> USE NoneAssumption DEF FilesInv
<1>1. /\ UNCHANGED <<pc, op, tried, result, stuck>>
      /\ n \in indexed /\ deleted' = deleted \cup {files[n].owner}
      /\ files' = [files EXCEPT ![n] = Free] /\ indexed' = indexed \ {n}
  BY DEF Delete, captureVars, callVars
<1>2. files[n].owner \in Calls /\ pc[files[n].owner] = "done"
  BY <1>1 DEF Index
<1>3. TypeOK' /\ Places'
  BY <1>1, <1>2 DEF TypeOK, Places, Free
<1>4. Owners'
  BY <1>1 DEF Owners, TypeOK, Free
<1>5. Index'
  BY <1>1 DEF Index, TypeOK
<1>6. Deleted'
  <2>1. \A d \in Calls : NoFile(d) => NoFile(d)'
    BY <1>1 DEF NoFile, TypeOK, Free
  <2>2. PICK c \in Calls : files[n].owner = c
    BY <1>2
  <2>3. ASSUME NEW m \in Names PROVE files'[m].owner # c
    BY <1>1, <2>2 DEF Owners, TypeOK, Free
  <2>4. NoFile(c)'
    BY <2>3 DEF NoFile
  <2>5. \A d \in deleted' : d = c \/ d \in deleted
    BY <1>1, <2>2
  <2>6. QED
    BY <1>1, <1>2, <2>1, <2>2, <2>4, <2>5 DEF Deleted, TypeOK
<1>7. ASSUME NEW d \in Calls PROVE Phase(d)' /\ Answer(d)'
  <2>1. \A m \in Names : \/ files'[m] = files[m]
                         \/ /\ files'[m].owner # d
                            /\ files[m].owner = d => pc[d] = "done" /\ d \in deleted'
    BY <1>1, <1>2 DEF TypeOK, Free
  <2>2. QED
    BY <1>1, <2>1, PartKept
<1>8. QED
  BY <1>3, <1>4, <1>5, <1>6, <1>7

(* A crash ends the calls, and leaves the disk as it is.                   *)
LEMMA CrashKeeps == ASSUME FilesInv, Crash PROVE FilesInv'
<1> USE DEF FilesInv, At
<1>1. /\ pc' = [c \in Calls |-> IF pc[c] = "idle" THEN "idle" ELSE "done"]
      /\ op' = [c \in Calls |-> "none"] /\ result' = [c \in Calls |-> "none"]
      /\ tried' = [c \in Calls |-> 0]
      /\ UNCHANGED <<files, indexed, stuck, deleted>>
  BY DEF Crash
<1>2. TypeOK' /\ Places'
  BY <1>1, NamesAssumption DEF TypeOK, Places, Labels, Kinds
<1>3. Owners' /\ Index' /\ Deleted'
  BY <1>1 DEF Owners, Index, Deleted, NoFile, TypeOK
<1>4. ASSUME NEW c \in Calls PROVE Phase(c)' /\ Answer(c)'
  BY <1>1 DEF Phase, Answer, NoFile, Capturing
<1>5. QED
  BY <1>2, <1>3, <1>4

(* Every step keeps what is known of the files.                            *)
LEMMA FilesKept == FilesInv /\ [Next]_vars => FilesInv'
<1> SUFFICES ASSUME FilesInv, [Next]_vars PROVE FilesInv'
  OBVIOUS
<1>1. ASSUME NEW c \in Calls, Request(c) \/ CallStep(c) PROVE FilesInv'
  <2>1. CASE Request(c)
    BY <2>1, RequestKeeps
  <2>2. CASE CaptureStep(c) /\ UNCHANGED <<fileVars, tried, result>>
    BY <2>2, CaptureKeepsFiles
  <2>3. CASE CaptureFailed(c) \/ Export(c) \/ NameTaken(c) \/ ClaimFails(c)
             \/ CopyOnly(c) \/ WorkerOver(c)
    BY <2>3, QuietKeeps
  <2>4. CASE Claim(c) \/ Write(c) \/ GiveUpFile(c) \/ StartRecording(c) \/ Finish(c)
    BY <2>4, FileActionsKeep
  <2>5. QED
    BY <1>1, <2>1, <2>2, <2>3, <2>4 DEF CallStep
<1>2. CASE (ScreenStep /\ UNCHANGED <<fileVars, tried, result>>) \/ UNCHANGED vars
  <2>1. UNCHANGED <<pc, op, fileVars, tried, result>>
    BY <1>2 DEF ScreenStep, LateAnswer, RequestPermission, HasPermission, Grant, Revoke,
                ChangeDisplays, vars, captureVars, callVars
  <2>2. ASSUME NEW d \in Calls PROVE Phase(d)' /\ Answer(d)'
    BY <2>1, PartKept DEF fileVars
  <2>3. TypeOK' /\ Places' /\ Owners' /\ Index' /\ Deleted'
    BY <2>1 DEF FilesInv, TypeOK, Places, Owners, Index, Deleted, NoFile, fileVars
  <2>4. QED
    BY <2>2, <2>3 DEF FilesInv
<1>3. ASSUME NEW n \in Names, Delete(n) PROVE FilesInv'
  BY <1>3, DeleteKeeps
<1>4. CASE Crash
  BY <1>4, CrashKeeps
<1>5. QED
  BY <1>1, <1>2, <1>3, <1>4 DEF Next

(* One call moves, and what it then has is a picture of its target, or     *)
(* nothing.                                                                *)
LEMMA ImageMoves ==
  ASSUME ImageInv, Places, NEW c \in Calls, NEW l, pc' = [pc EXCEPT ![c] = l],
         DOMAIN target' = Calls, DOMAIN image' = Calls,
         \A d \in Calls : d # c => target'[d] = target[d] /\ image'[d] = image[d],
         image'[c] # None => /\ l \in {"fallback", "claim"}
                             /\ image'[c].of = target'[c] /\ image'[c].call = c
  PROVE  ImageInv'
  BY DEF ImageInv, Places

(* A call that has no picture and takes none.                              *)
LEMMA NoImageMoves ==
  ASSUME ImageInv, Places, NEW c \in Calls, NEW l, pc' = [pc EXCEPT ![c] = l],
         pc[c] \notin {"fallback", "claim"}, image' = image,
         DOMAIN target' = Calls, \A d \in Calls : d # c => target'[d] = target[d]
  PROVE  ImageInv'
<1>1. image'[c] = None
  BY DEF ImageInv
<1>2. QED
  BY <1>1, ImageMoves DEF ImageInv

(* The step of a capture.                                                  *)
LEMMA CaptureKeepsImage ==
  ASSUME ImageInv, Places, NEW c \in Calls, CaptureStep(c) PROVE ImageInv'
<1> USE DEF At, Goto, callVars
<1>1. CASE Resolve(c)
  <2>1. PICK l \in Labels : pc' = [pc EXCEPT ![c] = l]
    BY <1>1 DEF Resolve, Labels, Capturing
  <2>2. /\ pc[c] = "resolve" /\ image' = image /\ DOMAIN target' = Calls
        /\ \A d \in Calls : d # c => target'[d] = target[d]
    BY <1>1 DEF Resolve, ImageInv
  <2>3. QED
    BY <2>1, <2>2, NoImageMoves
<1>2. CASE Preflight(c) \/ ClearLatch(c) \/ Ask(c) \/ DontAsk(c) \/ StreamRefused(c)
           \/ LatchDenial(c) \/ ContentArrives(c) \/ ContentMissing(c) \/ PictureMissing(c)
  <2>1. PICK l \in Labels : pc' = [pc EXCEPT ![c] = l]
    BY <1>2 DEF Preflight, ClearLatch, Ask, DontAsk, StreamRefused, LatchDenial,
                ContentArrives, ContentMissing, PictureMissing, NextAttempt, Labels, Capturing
  <2>2. pc[c] \notin {"fallback", "claim"} /\ image' = image /\ target' = target
    BY <1>2 DEF Preflight, ClearLatch, Ask, DontAsk, StreamRefused, LatchDenial,
                ContentArrives, ContentMissing, PictureMissing
  <2>3. QED
    BY <2>1, <2>2, NoImageMoves DEF ImageInv
<1>3. CASE PictureArrives(c)
  <2>1. PICK black \in BOOLEAN :
          /\ image' = [image EXCEPT ![c] = Picture(c, target[c], black)]
          /\ pc' = [pc EXCEPT ![c] = IF black THEN "fallback" ELSE "claim"]
          /\ target' = target
    BY <1>3 DEF PictureArrives
  <2>2. QED
    BY <2>1, ImageMoves DEF ImageInv, Picture
<1>4. CASE Fallback(c)
  <2>1. \A f \in FallbackImages(c) : f = None \/ (f.of = target[c] /\ f.call = c)
    BY DEF FallbackImages, FallbackDisplay, Picture
  <2>2. PICK best : /\ best \in FallbackImages(c) \/ best = image[c]
                    /\ image' = [image EXCEPT ![c] = best] /\ target' = target
                    /\ pc' = [pc EXCEPT ![c] = IF best = None THEN "failed" ELSE "claim"]
    BY <1>4 DEF Fallback
  <2>3. best = None \/ (best.of = target[c] /\ best.call = c)
    BY <2>1, <2>2 DEF ImageInv
  <2>4. QED
    BY <2>2, <2>3, ImageMoves DEF ImageInv
<1>5. QED
  BY <1>1, <1>2, <1>3, <1>4 DEF CaptureStep

(* Every step keeps what is known of the pictures.                         *)
LEMMA ImageKept == FilesInv /\ ImageInv /\ [Next]_vars => ImageInv'
<1> SUFFICES ASSUME FilesInv, ImageInv, [Next]_vars PROVE ImageInv'
  OBVIOUS
<1> USE DEF FilesInv, At, Goto, callVars
<1>1. ASSUME NEW c \in Calls, Request(c) \/ CallStep(c) PROVE ImageInv'
  <2>1. CASE Request(c)
    <3>1. PICK l \in Labels : pc' = [pc EXCEPT ![c] = l]
      BY <2>1 DEF Request, TakeScreenshot, RecordScreen, SavePrerendered, CopyImage, Begin,
                  Labels, Capturing
    <3>2. pc[c] = "idle" /\ UNCHANGED <<image, target>>
      BY <2>1 DEF Request, TakeScreenshot, RecordScreen, SavePrerendered, CopyImage, Begin
    <3>3. QED
      BY <3>1, <3>2, NoImageMoves DEF ImageInv
  <2>2. CASE CaptureStep(c)
    BY <2>2, CaptureKeepsImage
  <2>3. CASE NameTaken(c)
    BY <2>3 DEF NameTaken, CaptureUnchanged, ImageInv
  <2>4. CASE Write(c) \/ StartRecording(c)
    <3>1. PICK l \in Labels : pc' = [pc EXCEPT ![c] = l]
      BY <2>4 DEF Write, StartRecording, Labels, Capturing
    <3>2. pc[c] \in {"write", "start"} /\ UNCHANGED <<image, target>>
      BY <2>4 DEF Write, StartRecording, CaptureUnchanged
    <3>3. QED
      BY <3>1, <3>2, NoImageMoves DEF ImageInv
  <2>5. CASE CaptureFailed(c) \/ Export(c) \/ Claim(c) \/ ClaimFails(c) \/ GiveUpFile(c)
             \/ Finish(c) \/ CopyOnly(c) \/ WorkerOver(c)
    <3>1. PICK l \in Labels : pc' = [pc EXCEPT ![c] = l]
      BY <2>5 DEF CaptureFailed, Export, Claim, ClaimFails, GiveUpFile, Finish, CopyOnly,
                  WorkerOver, Returns, Ends, Labels
    <3>2. Forgets(c)
      BY <2>5 DEF CaptureFailed, Export, Claim, ClaimFails, GiveUpFile, Finish, CopyOnly,
                  WorkerOver, Returns, Ends
    <3>3. QED
      BY <3>1, <3>2, ImageMoves DEF Forgets, ImageInv
  <2>6. QED
    BY <1>1, <2>1, <2>2, <2>3, <2>4, <2>5 DEF CallStep
<1>2. CASE ScreenStep \/ UNCHANGED vars \/ \E n \in Names : Delete(n)
  BY <1>2 DEF ScreenStep, LateAnswer, RequestPermission, HasPermission, Grant, Revoke,
              ChangeDisplays, Delete, vars, captureVars, ImageInv
<1>3. CASE Crash
  BY <1>3 DEF Crash, ImageInv
<1>4. QED
  BY <1>1, <1>2, <1>3 DEF Next

(* The invariant holds of every behaviour.                                 *)
THEOREM Invariant == Spec => []IInv
<1>1. Init => IInv
  BY InitEstablishes
<1>2. IInv /\ [Next]_vars => IInv'
  BY FilesKept, ImageKept DEF IInv
<1>3. QED
  BY <1>1, <1>2, PTL DEF Spec

(* The module's variables have their shapes.                               *)
THEOREM TypeCorrect == Spec => []TypeOK
<1>1. IInv => TypeOK
  BY DEF IInv, FilesInv
<1>2. QED
  BY <1>1, Invariant, PTL

(* The picture of a screenshot is of the display that was asked for, and   *)
(* of this call, however displays and answers come and go.                 *)
THEOREM AskedDisplay == Spec => []ShowsAskedDisplay
<1>1. IInv => ShowsAskedDisplay
  BY DEF IInv, ImageInv, ShowsAskedDisplay
<1>2. QED
  BY <1>1, Invariant, PTL

(* Success names a complete file of the caller's, an error leaves none     *)
(* that could be removed, and the index lists complete captures.           *)
THEOREM TrueResults == Spec => []ResultsTrue
<1>1. IInv => ResultsTrue
  BY DEF IInv, FilesInv, Answer, Index, HasFile, NoFile, ResultsTrue
<1>2. QED
  BY <1>1, Invariant, PTL

(* What a step of the model does to a file that is somebody's.             *)
LEMMA StepOverwritesNothing ==
  ASSUME FilesInv, [Next]_vars, NEW n \in Names, files[n] # Free, files'[n] # files[n]
  PROVE  \/ files'[n].owner = files[n].owner
         \/ files'[n] = Free /\ (files[n].state = "empty" \/ deleted' # deleted)
<1> USE DEF FilesInv, TypeOK
<1>1. ASSUME NEW c \in Calls, Claim(c) PROVE FALSE
  BY <1>1 DEF Claim, CreatesNew
<1>2. ASSUME NEW c \in Calls, Write(c) \/ StartRecording(c)
      PROVE  files'[n].owner = files[n].owner
  <2>1. /\ pc[c] \in {"write", "start"}
        /\ \E state \in {"whole", "recording"} :
             files' = [files EXCEPT ![tried[c]] = Holds(c, state)]
    BY <1>2 DEF Write, StartRecording, At
  <2>2. HasFile(c, "empty")
    BY <2>1 DEF Phase
  <2>3. QED
    BY <2>1, <2>2 DEF HasFile, Holds
<1>3. ASSUME NEW c \in Calls, GiveUpFile(c) PROVE files'[n] = Free /\ files[n].state = "empty"
  <2>1. pc[c] \in {"write", "start"} /\ files' = [files EXCEPT ![tried[c]] = Free]
    BY <1>3 DEF GiveUpFile
  <2>2. HasFile(c, "empty")
    BY <2>1 DEF Phase
  <2>3. QED
    BY <2>1, <2>2 DEF HasFile, Holds
<1>4. ASSUME NEW m \in Names, Delete(m) PROVE files'[n] = Free /\ deleted' # deleted
  <2>1. /\ m \in indexed /\ deleted' = deleted \cup {files[m].owner}
        /\ files' = [files EXCEPT ![m] = Free]
    BY <1>4 DEF Delete
  <2>2. files[m].owner \notin deleted
    BY DEF Deleted, NoFile
  <2>3. QED
    BY <2>1, <2>2
<1>5. ASSUME NEW c \in Calls, Request(c) \/ CallStep(c),
             ~(Claim(c) \/ Write(c) \/ StartRecording(c) \/ GiveUpFile(c))
      PROVE  FALSE
  BY <1>5 DEF Request, TakeScreenshot, RecordScreen, SavePrerendered, CopyImage, Begin,
              CallStep, CaptureFailed, Export, NameTaken, ClaimFails, Finish, CopyOnly,
              WorkerOver, fileVars
<1>6. CASE UNCHANGED fileVars \/ Crash \/ UNCHANGED vars
  BY <1>6 DEF Crash, vars, fileVars
<1>7. QED
  BY <1>1, <1>2, <1>3, <1>4, <1>5, <1>6 DEF Next

(* No file is overwritten: it changes hands only through a free name, and  *)
(* is removed only as an empty placeholder or by the user.                 *)
THEOREM FilesSafe == Spec => NothingOverwritten
<1>1. IInv /\ [Next]_vars =>
        [\A n \in Names : files[n] # Free /\ files'[n] # files[n] =>
           \/ files'[n].owner = files[n].owner
           \/ files'[n] = Free /\ (files[n].state = "empty" \/ deleted' # deleted)]_vars
  BY StepOverwritesNothing DEF IInv
<1>2. QED
  BY <1>1, Invariant, PTL DEF Spec, NothingOverwritten

-----------------------------------------------------------------------------
(* The dialogs.                                                            *)

AskTypes ==
  /\ granted \in BOOLEAN /\ latch \in BOOLEAN /\ requested \in BOOLEAN
  /\ crossed \subseteq Calls /\ prompts \in Nat /\ again \in [Calls -> BOOLEAN]

(* Only a recording has a second attempt.                                  *)
Retries ==
  \A c \in Calls : again[c] =>
    op[c] = "record" /\ pc[c] \in {"resolve", "query", "content", "denied", "over"}

(* Without the grant a second attempt finds the denial of the first        *)
(* latched, unless a revocation crossed the recording; and while somebody  *)
(* is about to clear the latch, it crossed every recording.                *)
Latched ==
  ~granted => \A c \in Calls :
                /\ again[c] => latch \/ c \in crossed
                /\ StaleGrant /\ op[c] = "record" /\ InFlight(c) => c \in crossed

(* The calls that may have put their question, and those that may have     *)
(* put it twice.                                                           *)
Asked(c) ==
  \/ again[c]
  \/ /\ pc[c] \notin {"idle", "resolve", "preflight", "clear", "query", "start"}
     /\ ~(pc[c] = "claim" /\ op[c] = "record")
AskedAgain(c) == pc[c] \in {"over", "done"} \/ (pc[c] \in {"content", "denied"} /\ again[c])
First == {c \in Calls : Asked(c)}
Second == {c \in crossed : AskedAgain(c)}

Counted ==
  prompts <= (IF requested THEN 1 ELSE 0) + Cardinality(First) + Cardinality(Second)

AskInv == AskTypes /\ Retries /\ Latched /\ Counted

(* Sets of calls are finite, and count at most the calls.                  *)
LEMMA CallsCounted ==
  /\ IsFiniteSet(Calls) /\ Cardinality(Calls) \in Nat
  /\ \A S \in SUBSET Calls : IsFiniteSet(S) /\ Cardinality(S) \in Nat
                             /\ Cardinality(S) <= Cardinality(Calls)
<1>1. IsFiniteSet(Calls)
  BY FS_Interval, BoundsAssumption DEF Calls
<1>2. QED
  BY <1>1, FS_Subset, FS_CardinalityType

(* Sets of calls only grow in size when they grow, and by one with one     *)
(* more call.                                                              *)
LEMMA CountsGrow ==
  ASSUME NEW S \in SUBSET Calls, NEW T \in SUBSET Calls, S \subseteq T
  PROVE  /\ Cardinality(S) \in Nat /\ Cardinality(T) \in Nat
         /\ Cardinality(S) <= Cardinality(T)
         /\ \A c \in T \ S : Cardinality(S) + 1 <= Cardinality(T)
<1>1. /\ IsFiniteSet(S) /\ IsFiniteSet(T)
      /\ Cardinality(S) \in Nat /\ Cardinality(T) \in Nat
  BY CallsCounted
<1>2. Cardinality(S) <= Cardinality(T)
  BY <1>1, FS_Subset
<1>3. ASSUME NEW c \in T \ S PROVE Cardinality(S) + 1 <= Cardinality(T)
  <2>1. Cardinality(S \cup {c}) = Cardinality(S) + 1
    BY <1>1, FS_AddElement
  <2>2. S \cup {c} \in SUBSET T
    OBVIOUS
  <2>3. Cardinality(S \cup {c}) <= Cardinality(T)
    BY <1>1, <2>2, FS_Subset
  <2>4. QED
    BY <2>1, <2>3
<1>4. QED
  BY <1>1, <1>2, <1>3

(* The question of a call that was not counted yet, or an explicit         *)
(* request, makes room for one more dialog.                                *)
LEMMA CountKept ==
  ASSUME AskTypes, AskTypes', Counted,
         First \subseteq First', Second \subseteq Second',
         requested => requested',
         \/ prompts' = prompts
         \/ prompts' = prompts + 1 /\ \/ ~requested /\ requested'
                                      \/ \E c \in Calls : ~Asked(c) /\ Asked(c)'
                                      \/ \E c \in crossed' : ~AskedAgain(c) /\ AskedAgain(c)'
  PROVE  Counted'
<1>1. PICK f \in Nat, g \in Nat : /\ f = Cardinality(First) /\ g = Cardinality(First') /\ f <= g
                                  /\ \A c \in First' \ First : f + 1 <= g
  BY CountsGrow DEF First
<1>2. PICK s \in Nat, t \in Nat : /\ s = Cardinality(Second) /\ t = Cardinality(Second') /\ s <= t
                                  /\ \A c \in Second' \ Second : s + 1 <= t
  BY CountsGrow DEF Second, AskTypes
<1>3. Counted' = (prompts' <= (IF requested' THEN 1 ELSE 0) + g + t)
  BY <1>1, <1>2 DEF Counted
<1>4. prompts <= (IF requested THEN 1 ELSE 0) + f + s
  BY <1>1, <1>2 DEF Counted
<1>5. \A c \in Calls : ~Asked(c) /\ Asked(c)' => f + 1 <= g
  BY <1>1 DEF First
<1>6. \A c \in crossed' : ~AskedAgain(c) /\ AskedAgain(c)' => s + 1 <= t
  BY <1>2 DEF Second
<1>7. PICK x \in 0 .. 1, y \in 0 .. 1 : /\ x = (IF requested THEN 1 ELSE 0)
                                        /\ y = (IF requested' THEN 1 ELSE 0)
                                        /\ x <= y /\ (~requested /\ requested' => x + 1 <= y)
  OBVIOUS
<1>8. prompts \in Nat /\ prompts' \in Nat /\ prompts <= x + f + s
  BY <1>4, <1>7 DEF AskTypes
<1>9. prompts' <= y + g + t
  <2>1. \/ prompts' = prompts
        \/ prompts' = prompts + 1 /\ (x + 1 <= y \/ f + 1 <= g \/ s + 1 <= t)
    BY <1>5, <1>6, <1>7
  <2>2. x <= y /\ f <= g /\ s <= t /\ x \in Nat /\ y \in Nat
    BY <1>1, <1>2, <1>7
  <2>3. QED
    BY <1>8, <2>1, <2>2
<1>10. QED
  BY <1>3, <1>7, <1>9

(* What a step of one call leaves alone, and that what the call has asked  *)
(* stays counted.                                                          *)
Alone(c) == \A d \in Calls : d # c => pc'[d] = pc[d] /\ op'[d] = op[d] /\ again'[d] = again[d]
Onward(c) == (Asked(c) => Asked(c)') /\ (AskedAgain(c) => AskedAgain(c)')

LEMMA OnwardGrows ==
  ASSUME NEW c \in Calls, Alone(c), Onward(c), crossed \subseteq Calls, crossed \subseteq crossed'
  PROVE  First \subseteq First' /\ Second \subseteq Second'
<1>1. \A d \in Calls : (Asked(d) => Asked(d)') /\ (AskedAgain(d) => AskedAgain(d)')
  BY DEF Alone, Onward, Asked, AskedAgain
<1>2. QED
  BY <1>1 DEF First, Second

(* A step of a call that leaves the permission alone.                      *)
LEMMA QuietStep ==
  ASSUME AskInv, NEW c \in Calls, Alone(c), Onward(c),
         UNCHANGED <<granted, latch, requested, prompts>>,
         crossed' = crossed \/ (pc[c] = "idle" /\ crossed' = crossed \cup {c}),
         again' \in [Calls -> BOOLEAN],
         pc'[c] = "clear" => granted,
         again'[c] => /\ op'[c] = "record"
                      /\ pc'[c] \in {"resolve", "query", "content", "denied", "over"},
         ~granted /\ again'[c] => latch \/ c \in crossed',
         StaleGrant /\ op'[c] = "record" /\ pc'[c] # "done" =>
           c \in crossed' \/ (op[c] = "record" /\ InFlight(c))
  PROVE  AskInv'
<1>1. AskTypes'
  BY DEF AskInv, AskTypes
<1>2. Retries'
  BY DEF AskInv, Retries, Alone
<1>3. Latched'
  <2>1. ~granted /\ StaleGrant' => StaleGrant
    BY DEF StaleGrant, At, Alone
  <2>2. QED
    BY <2>1 DEF AskInv, Latched, Alone, InFlight
<1>4. Counted'
  BY <1>1, CountKept, OnwardGrows DEF AskInv, AskTypes
<1>5. QED
  BY <1>1, <1>2, <1>3, <1>4 DEF AskInv

(* A call goes on to its next attempt: only with a latched denial, or      *)
(* without one when there is or was a grant.                               *)
LEMMA NextAttemptMoves ==
  ASSUME Places, AskInv, NEW c \in Calls, NextAttempt(c), op' = op,
         pc[c] \in {"query", "content", "denied"}
  PROVE  /\ Alone(c) /\ Onward(c) /\ again' \in [Calls -> BOOLEAN]
         /\ pc'[c] # "clear"
         /\ again'[c] => /\ op'[c] = "record"
                         /\ pc'[c] \in {"resolve", "query", "content", "denied", "over"}
<1>1. CASE op[c] = "record"
  <2>1. /\ again' = [again EXCEPT ![c] = TRUE]
        /\ pc' = [pc EXCEPT ![c] = IF again[c] THEN "over" ELSE "resolve"]
    BY <1>1 DEF NextAttempt, Goto
  <2>2. again \in [Calls -> BOOLEAN] /\ pc \in [Calls -> Labels]
    BY DEF AskInv, AskTypes, Places
  <2>3. Alone(c) /\ again' \in [Calls -> BOOLEAN] /\ again'[c] /\ pc'[c] \in {"over", "resolve"}
    BY <2>1, <2>2 DEF Alone
  <2>4. Asked(c)'
    BY <2>3 DEF Asked
  <2>5. AskedAgain(c) => AskedAgain(c)'
    BY <2>1, <2>2 DEF AskedAgain
  <2>6. QED
    BY <1>1, <2>3, <2>4, <2>5 DEF Onward
<1>2. CASE op[c] # "record"
  <2>1. again' = again /\ pc' = [pc EXCEPT ![c] = "fallback"]
    BY <1>2 DEF NextAttempt, Goto
  <2>2. again \in [Calls -> BOOLEAN] /\ pc \in [Calls -> Labels] /\ ~again[c]
    BY <1>2 DEF AskInv, AskTypes, Places, Retries
  <2>3. Alone(c) /\ pc'[c] = "fallback" /\ ~again'[c]
    BY <2>1, <2>2 DEF Alone
  <2>4. Onward(c)
    BY <2>2, <2>3 DEF Onward, Asked, AskedAgain
  <2>5. QED
    BY <2>1, <2>2, <2>3, <2>4
<1>3. QED
  BY <1>1, <1>2

(* A capture puts its question only while no denial is latched, and what   *)
(* clears the latch has seen a grant.                                      *)
LEMMA CaptureKeepsCount ==
  ASSUME FilesInv, AskInv, NEW c \in Calls, CaptureStep(c)
  PROVE  AskInv'
<1> USE DEF At, Goto, permVars, screenVars, callVars
<1>1. /\ again \in [Calls -> BOOLEAN] /\ pc \in [Calls -> Labels]
      /\ granted \in BOOLEAN /\ latch \in BOOLEAN /\ requested \in BOOLEAN
      /\ crossed \subseteq Calls /\ prompts \in Nat
      /\ again[c] => /\ op[c] = "record"
                     /\ pc[c] \in {"resolve", "query", "content", "denied", "over"}
      /\ ~granted /\ again[c] => latch \/ c \in crossed
      /\ pc[c] \in {"preflight", "clear", "picture", "fallback"} => op[c] # "record"
      /\ Places
  BY DEF AskInv, AskTypes, FilesInv, Places, Phase, Recording, Retries, Latched
<1>2. CASE Resolve(c) \/ Preflight(c) \/ ContentArrives(c) \/ ContentMissing(c)
           \/ PictureArrives(c) \/ PictureMissing(c) \/ Fallback(c)
  <2>1. PICK l : pc' = [pc EXCEPT ![c] = l]
    BY <1>2 DEF Resolve, Preflight, ContentArrives, ContentMissing, PictureArrives,
                PictureMissing, Fallback
  <2>2. UNCHANGED <<granted, latch, requested, crossed, prompts, again, op>>
    BY <1>2 DEF Resolve, Preflight, ContentArrives, ContentMissing, PictureArrives,
                PictureMissing, Fallback
  <2>3. \/ pc[c] = "resolve" /\ l \in {"query", "preflight", "failed", "over"}
           /\ (op[c] = "record" => l \in {"query", "over"})
        \/ pc[c] = "preflight" /\ l \in {"clear", "fallback"} /\ (l = "clear" => granted)
        \/ pc[c] = "content" /\ l = "over" /\ op[c] = "record"
        \/ pc[c] = "content" /\ l \in {"picture", "fallback"} /\ op[c] # "record"
        \/ pc[c] = "content" /\ l = "denied"
        \/ pc[c] \in {"picture", "fallback"} /\ l \in {"fallback", "claim", "failed"}
    <3>1. CASE Resolve(c)
      BY <1>1, <2>1, <3>1 DEF Resolve
    <3>2. CASE Preflight(c)
      BY <1>1, <2>1, <3>2 DEF Preflight
    <3>3. CASE ContentArrives(c) \/ ContentMissing(c)
      BY <1>1, <2>1, <3>3 DEF ContentArrives, ContentMissing
    <3>4. CASE PictureArrives(c) \/ PictureMissing(c)
      BY <1>1, <2>1, <3>4 DEF PictureArrives, PictureMissing
    <3>5. CASE Fallback(c)
      <4>1. pc[c] = "fallback"
        BY <3>5 DEF Fallback
      <4>2. PICK best : /\ image' = [image EXCEPT ![c] = best]
                        /\ pc' = [pc EXCEPT ![c] = IF best = None THEN "failed" ELSE "claim"]
        BY <3>5 DEF Fallback
      <4>3. QED
        BY <1>1, <2>1, <4>1, <4>2
    <3>6. QED
      BY <1>2, <3>1, <3>2, <3>3, <3>4, <3>5
  <2>4. Alone(c) /\ pc'[c] = l
    BY <1>1, <2>1, <2>2 DEF Alone
  <2>5. Onward(c)
    BY <1>1, <2>2, <2>3, <2>4 DEF Onward, Asked, AskedAgain
  <2>6. QED
    BY <1>1, <2>2, <2>3, <2>4, <2>5, QuietStep DEF InFlight
<1>3. CASE DontAsk(c) \/ StreamRefused(c)
  <2>1. /\ NextAttempt(c) /\ pc[c] \in {"query", "content"}
        /\ UNCHANGED <<granted, latch, requested, crossed, prompts, op>>
        /\ latch \/ granted
    BY <1>3 DEF DontAsk, StreamRefused
  <2>2. /\ Alone(c) /\ Onward(c) /\ again' \in [Calls -> BOOLEAN] /\ pc'[c] # "clear"
        /\ again'[c] => /\ op'[c] = "record"
                        /\ pc'[c] \in {"resolve", "query", "content", "denied", "over"}
    BY <1>1, <2>1, NextAttemptMoves
  <2>3. QED
    BY <2>1, <2>2, QuietStep DEF InFlight
<1>4. CASE LatchDenial(c)
  <2>1. /\ NextAttempt(c) /\ pc[c] = "denied" /\ latch' = (latch \/ ~granted)
        /\ UNCHANGED <<granted, requested, crossed, prompts, op>>
    BY <1>4 DEF LatchDenial
  <2>2. /\ Alone(c) /\ Onward(c) /\ again' \in [Calls -> BOOLEAN] /\ pc'[c] # "clear"
        /\ again'[c] => /\ op'[c] = "record"
                        /\ pc'[c] \in {"resolve", "query", "content", "denied", "over"}
    BY <1>1, <2>1, NextAttemptMoves
  <2>3. latch' \in BOOLEAN
    BY <2>1
  <2>4. AskTypes'
    BY <1>1, <2>1, <2>2, <2>3 DEF AskTypes
  <2>5. Retries'
    BY <2>2 DEF AskInv, Retries, Alone
  <2>6. Latched'
    <3>1. StaleGrant' => StaleGrant
      BY <2>1, <2>2 DEF StaleGrant, Alone
    <3>2. QED
      BY <2>1, <2>2, <3>1 DEF AskInv, Latched, Alone, InFlight
  <2>7. Counted'
    BY <1>1, <2>1, <2>2, <2>4, CountKept, OnwardGrows DEF AskInv
  <2>8. QED
    BY <2>4, <2>5, <2>6, <2>7 DEF AskInv
<1>5. CASE ClearLatch(c) \/ Ask(c)
  <2>1. PICK l \in {"query", "content"} : /\ pc' = [pc EXCEPT ![c] = l]
                                          /\ l = "query" => pc[c] = "clear" /\ prompts' = prompts
                                          /\ l = "content" => pc[c] = "query" /\ Ask(c)
    BY <1>5 DEF ClearLatch, Ask
  <2>2. latch' = FALSE /\ UNCHANGED <<granted, requested, crossed, again, op>>
    BY <1>5 DEF ClearLatch, Ask
  <2>3. Alone(c) /\ pc'[c] = l /\ again'[c] = again[c]
    BY <1>1, <2>1, <2>2 DEF Alone
  <2>4. Onward(c)
    BY <1>1, <2>1, <2>2, <2>3 DEF Onward, Asked, AskedAgain
  <2>5. l = "content" => \/ granted /\ prompts' = prompts
                         \/ ~granted /\ ~latch /\ prompts' = prompts + 1
    BY <1>1, <2>1 DEF Ask
  <2>6. AskTypes'
    <3>1. latch' \in BOOLEAN
      BY <2>2
    <3>2. prompts' \in Nat
      BY <1>1, <2>1, <2>5
    <3>3. QED
      BY <1>1, <2>2, <3>1, <3>2 DEF AskTypes
  <2>7. Retries'
    BY <1>1, <2>1, <2>2, <2>3 DEF AskInv, Retries, Alone
  <2>8. Latched'
    <3>1. StaleGrant' => StaleGrant
      BY <2>1, <2>2, <2>3 DEF StaleGrant, Alone
    <3>2. ~granted /\ l = "query" => StaleGrant
      BY <2>1 DEF StaleGrant
    <3>3. ~granted /\ l = "content" => ~latch
      BY <1>1, <2>1, <2>5
    <3>4. InFlight(c)
      BY <2>1 DEF InFlight, Ask
    <3>5. \A d \in Calls : again[d] => op[d] = "record" /\ InFlight(d)
      BY DEF AskInv, Retries, InFlight
    <3>6. QED
      BY <2>1, <2>2, <2>3, <3>1, <3>2, <3>3, <3>4, <3>5 DEF AskInv, Latched, Alone, InFlight
  <2>9. Counted'
    <3>1. First \subseteq First' /\ Second \subseteq Second'
      BY <1>1, <2>2, <2>3, <2>4, OnwardGrows
    <3>2. \/ prompts' = prompts
          \/ prompts' = prompts + 1 /\ l = "content" /\ ~granted /\ ~latch
      BY <2>1, <2>5
    <3>3. CASE l = "content" /\ ~granted /\ ~latch /\ ~again[c]
      <4>1. ~Asked(c) /\ Asked(c)'
        BY <2>1, <2>3, <3>3 DEF Asked
      <4>2. QED
        BY <1>1, <2>2, <2>6, <3>1, <3>2, <4>1, CountKept DEF AskInv
    <3>4. CASE l = "content" /\ ~granted /\ ~latch /\ again[c]
      <4>1. c \in crossed'
        BY <1>1, <2>2, <3>4
      <4>2. ~AskedAgain(c) /\ AskedAgain(c)'
        BY <2>1, <2>3, <3>4 DEF AskedAgain
      <4>3. QED
        BY <1>1, <2>2, <2>6, <3>1, <3>2, <4>1, <4>2, CountKept DEF AskInv
    <3>5. CASE prompts' = prompts
      BY <1>1, <2>2, <2>6, <3>1, <3>5, CountKept DEF AskInv
    <3>6. QED
      BY <3>2, <3>3, <3>4, <3>5
  <2>10. QED
    BY <2>6, <2>7, <2>8, <2>9 DEF AskInv
<1>6. QED
  BY <1>2, <1>3, <1>4, <1>5 DEF CaptureStep

(* Requests, files and results raise no dialog, and a call that ends stays *)
(* counted.                                                                *)
LEMMA CallKeepsCount ==
  ASSUME FilesInv, AskInv, NEW c \in Calls, Request(c) \/ CallStep(c)
  PROVE  AskInv'
<1> USE DEF At, Goto, permVars, screenVars, callVars
<1>1. /\ again \in [Calls -> BOOLEAN] /\ pc \in [Calls -> Labels] /\ op \in [Calls -> Kinds]
      /\ again[c] => /\ op[c] = "record"
                     /\ pc[c] \in {"resolve", "query", "content", "denied", "over"}
      /\ ~granted /\ again[c] => latch \/ c \in crossed
      /\ op[c] = "record" => pc[c] \in Recording
      /\ pc[c] = "start" => op[c] = "record"
  BY DEF AskInv, AskTypes, FilesInv, Places, Phase, Retries, Latched
<1>2. CASE Request(c)
  <2>1. PICK k \in {"shot", "record", "prerendered", "clip"}, l \in {"resolve", "claim", "copy"} :
          /\ pc[c] = "idle" /\ pc' = [pc EXCEPT ![c] = l] /\ op' = [op EXCEPT ![c] = k]
          /\ k = "record" => l = "claim"
    BY <1>2 DEF Request, TakeScreenshot, RecordScreen, SavePrerendered, CopyImage, Begin
  <2>2. /\ UNCHANGED <<granted, latch, requested, prompts, again>>
        /\ crossed' = crossed \/ crossed' = crossed \cup {c}
        /\ StaleGrant /\ op'[c] = "record" => c \in crossed'
    BY <1>1, <1>2 DEF Request, TakeScreenshot, RecordScreen, SavePrerendered, CopyImage, Begin
  <2>3. Alone(c) /\ pc'[c] = l /\ op'[c] = k /\ ~again[c]
    BY <1>1, <2>1, <2>2 DEF Alone
  <2>4. Onward(c)
    BY <2>1, <2>3 DEF Onward, Asked, AskedAgain
  <2>5. QED
    BY <1>1, <2>1, <2>2, <2>3, <2>4, QuietStep
<1>3. CASE CaptureStep(c)
  BY <1>3, CaptureKeepsCount
<1>4. CASE NameTaken(c) \/ Write(c) \/ StartRecording(c)
  <2>1. PICK l \in Labels :
          /\ pc' = [pc EXCEPT ![c] = l]
          /\ \/ pc[c] = "claim" /\ l = "claim"
             \/ pc[c] = "write" /\ l = "finish"
             \/ pc[c] = "start" /\ l = "resolve"
    <3>1. CASE NameTaken(c)
      <4>1. pc[c] = "claim" /\ pc' = pc
        BY <3>1 DEF NameTaken
      <4>2. pc' = [pc EXCEPT ![c] = "claim"]
        BY <1>1, <4>1
      <4>3. QED
        BY <4>1, <4>2 DEF Labels
    <3>2. CASE Write(c) \/ StartRecording(c)
      BY <3>2 DEF Write, StartRecording, Labels, Capturing
    <3>3. QED
      BY <1>4, <3>1, <3>2
  <2>2. UNCHANGED <<granted, latch, requested, crossed, prompts, again, op>>
    BY <1>4 DEF NameTaken, Write, StartRecording, CaptureUnchanged
  <2>3. Alone(c) /\ pc'[c] = l /\ ~again[c]
    BY <1>1, <2>1, <2>2 DEF Alone
  <2>4. Onward(c)
    BY <1>1, <2>1, <2>2, <2>3 DEF Onward, Asked, AskedAgain
  <2>5. QED
    BY <1>1, <2>1, <2>2, <2>3, <2>4, QuietStep DEF InFlight
<1>5. CASE CaptureFailed(c) \/ Export(c) \/ Claim(c) \/ ClaimFails(c) \/ GiveUpFile(c)
           \/ Finish(c) \/ CopyOnly(c) \/ WorkerOver(c)
  <2>1. Forgets(c)
    BY <1>5 DEF CaptureFailed, Export, Claim, ClaimFails, GiveUpFile, Finish, CopyOnly,
                WorkerOver, Returns, Ends
  <2>2. /\ UNCHANGED <<granted, latch, requested, crossed, prompts>>
        /\ again' = [again EXCEPT ![c] = FALSE]
    BY <2>1 DEF Forgets
  <2>3. op' = op \/ (op[c] = "shot" /\ op' = [op EXCEPT ![c] = "grab"])
    BY <1>5 DEF CaptureFailed, Export, Claim, ClaimFails, GiveUpFile, Finish, CopyOnly,
                WorkerOver, Returns, Ends
  <2>4. \/ pc' = [pc EXCEPT ![c] = "done"]
        \/ pc[c] = "claim" /\ pc' = [pc EXCEPT ![c] = IF op[c] = "record" THEN "start" ELSE "write"]
    BY <1>5 DEF CaptureFailed, Export, Claim, ClaimFails, GiveUpFile, Finish, CopyOnly,
                WorkerOver, Returns, Ends
  <2>5. Alone(c) /\ ~again'[c] /\ again' \in [Calls -> BOOLEAN]
    BY <1>1, <2>2, <2>3, <2>4 DEF Alone
  <2>6. Onward(c) /\ pc'[c] # "clear"
    BY <1>1, <2>2, <2>3, <2>4, <2>5 DEF Onward, Asked, AskedAgain
  <2>7. op'[c] = "record" /\ pc'[c] # "done" => op[c] = "record" /\ InFlight(c)
    BY <1>1, <2>3, <2>4 DEF InFlight
  <2>8. QED
    BY <2>2, <2>5, <2>6, <2>7, QuietStep
<1>6. QED
  BY <1>2, <1>3, <1>4, <1>5 DEF CallStep

(* The system's own steps, the deletions and a crash.                      *)
LEMMA SurroundingsKeepCount ==
  ASSUME FilesInv, AskInv, ScreenStep \/ (\E n \in Names : Delete(n)) \/ Crash \/ UNCHANGED vars
  PROVE  AskInv'
<1> USE DEF permVars, screenVars, callVars
<1>1. /\ again \in [Calls -> BOOLEAN]
      /\ granted \in BOOLEAN /\ latch \in BOOLEAN /\ requested \in BOOLEAN
      /\ crossed \subseteq Calls /\ prompts \in Nat
  BY DEF AskInv, AskTypes
<1>2. CASE Crash
  <2>1. /\ latch' = FALSE /\ requested' = FALSE /\ prompts' = 0 /\ crossed' = {}
        /\ again' = [c \in Calls |-> FALSE] /\ UNCHANGED granted
        /\ op' = [c \in Calls |-> "none"]
        /\ pc' = [c \in Calls |-> IF pc[c] = "idle" THEN "idle" ELSE "done"]
    BY <1>2 DEF Crash, At
  <2>2. AskTypes' /\ Retries' /\ Latched'
    BY <1>1, <2>1 DEF AskTypes, Retries, Latched, InFlight
  <2>3. Cardinality(First)' \in Nat /\ Cardinality(Second)' \in Nat
    BY <2>1, CountsGrow DEF First, Second
  <2>4. Counted'
    BY <2>1, <2>3 DEF Counted
  <2>5. QED
    BY <2>2, <2>4 DEF AskInv
<1>3. CASE ~Crash
  <2>1. UNCHANGED <<pc, op, again>>
    BY <1>3 DEF ScreenStep, LateAnswer, RequestPermission, HasPermission, Grant, Revoke,
                ChangeDisplays, Delete, vars, captureVars
  <2>2. /\ First' = First
        /\ crossed \subseteq crossed' => Second \subseteq Second'
    BY <2>1 DEF First, Second, Asked, AskedAgain
  <2>3. Retries'
    BY <2>1 DEF AskInv, Retries
  <2>4. \/ UNCHANGED <<granted, latch, requested, crossed, prompts>>
        \/ /\ ~granted /\ ~requested /\ requested' = TRUE /\ prompts' = prompts + 1
           /\ granted' \in BOOLEAN /\ latch' \in BOOLEAN /\ crossed' = crossed
           /\ ~granted' => latch' = latch
        \/ /\ granted' = TRUE /\ latch' \in BOOLEAN
           /\ UNCHANGED <<requested, crossed, prompts>>
        \/ /\ granted' = FALSE
           /\ crossed' = crossed \cup {c \in Calls : op[c] = "record" /\ InFlight(c)}
           /\ UNCHANGED <<latch, requested, prompts>>
    <3>1. CASE (\E n \in Names : Delete(n)) \/ UNCHANGED vars
      BY <3>1 DEF Delete, vars, captureVars
    <3>2. CASE (\E m \in late : LateAnswer(m)) \/ ChangeDisplays
      BY <3>2 DEF LateAnswer, ChangeDisplays
    <3>3. CASE RequestPermission
      <4>1. granted' \in BOOLEAN /\ latch' \in BOOLEAN
        BY <1>1, <3>3 DEF RequestPermission
      <4>2. QED
        BY <3>3, <4>1 DEF RequestPermission
    <3>4. CASE HasPermission
      <4>1. latch' \in BOOLEAN
        BY <3>4 DEF HasPermission
      <4>2. granted' = TRUE
        BY <1>1, <3>4 DEF HasPermission
      <4>3. QED
        BY <3>4, <4>1, <4>2 DEF HasPermission
    <3>5. CASE Grant \/ Revoke
      BY <1>1, <3>5 DEF Grant, Revoke
    <3>6. QED
      BY <1>3, <3>1, <3>2, <3>3, <3>4, <3>5 DEF ScreenStep
  <2>5. granted' \in BOOLEAN /\ latch' \in BOOLEAN /\ requested' \in BOOLEAN
    BY <1>1, <2>4
  <2>6. AskTypes'
    BY <1>1, <2>1, <2>4, <2>5 DEF AskTypes
  <2>7. Latched'
    <3>1. /\ \A c \in Calls : again[c] => op[c] = "record" /\ InFlight(c)
          /\ \A c \in Calls : InFlight(c)' = InFlight(c)
      BY <2>1 DEF AskInv, Retries, InFlight
    <3>2. CASE granted'
      BY <3>2 DEF Latched
    <3>3. CASE ~granted' /\ crossed' = crossed /\ granted' = granted
      <4>1. StaleGrant' = StaleGrant /\ latch' = latch
        BY <1>1, <2>1, <2>4, <3>3 DEF StaleGrant, At
      <4>2. QED
        BY <2>1, <3>1, <3>3, <4>1 DEF AskInv, Latched
    <3>4. CASE crossed' = crossed \cup {c \in Calls : op[c] = "record" /\ InFlight(c)}
      BY <2>1, <3>1, <3>4 DEF Latched
    <3>5. QED
      BY <1>1, <2>4, <2>5, <3>2, <3>3, <3>4
  <2>8. Counted'
    <3>1. (requested => requested') /\ crossed \subseteq crossed'
      BY <1>1, <2>4
    <3>2. \/ prompts' = prompts
          \/ prompts' = prompts + 1 /\ ~requested /\ requested'
      BY <2>4
    <3>3. QED
      BY <2>2, <2>6, <3>1, <3>2, CountKept DEF AskInv
  <2>9. QED
    BY <2>3, <2>6, <2>7, <2>8 DEF AskInv
<1>4. QED
  BY <1>2, <1>3

(* A process begins without a dialog, or the explicit request behind it.   *)
LEMMA InitCounts == Init => AskInv
<1> SUFFICES ASSUME Init PROVE AskInv
  OBVIOUS
<1>1. AskTypes /\ Retries /\ Latched
  BY DEF Init, CaptureInit, AskTypes, Retries, Latched, InFlight
<1>2. Cardinality(First) \in Nat /\ Cardinality(Second) \in Nat
  BY <1>1, CountsGrow DEF First, Second, AskTypes
<1>3. Counted
  BY <1>2 DEF Init, CaptureInit, Counted
<1>4. QED
  BY <1>1, <1>3 DEF AskInv

(* What the count says of the dialogs.                                     *)
LEMMA CountBounds == AskInv => PromptsBounded
<1> SUFFICES ASSUME AskInv PROVE PromptsBounded
  OBVIOUS
<1>1. PICK n \in Nat, f \in Nat, s \in Nat, k \in Nat :
        /\ n = Cardinality(Calls) /\ f = Cardinality(First)
        /\ s = Cardinality(Second) /\ k = Cardinality(crossed)
        /\ f <= n /\ s <= k
  BY CallsCounted, CountsGrow DEF AskInv, AskTypes, First, Second
<1>2. prompts <= 1 + f + s /\ prompts \in Nat
  BY <1>1 DEF AskInv, AskTypes, Counted
<1>3. QED
  BY <1>1, <1>2 DEF PromptsBounded

(* Every step keeps the count.                                             *)
LEMMA CountStep == IInv /\ AskInv /\ [Next]_vars => AskInv'
  BY CallKeepsCount, SurroundingsKeepCount DEF IInv, Next

(* However calls overlap, end and crash, a process raises at most one      *)
(* dialog per call, one for the explicit request, and one more for each    *)
(* recording that a revocation crossed.                                    *)
THEOREM PromptsStayBounded == Spec => []PromptsBounded
<1>1. Init => AskInv
  BY InitCounts
<1>2. IInv /\ AskInv /\ [Next]_vars => AskInv'
  BY CountStep
<1>3. AskInv => PromptsBounded
  BY CountBounds
<1>4. QED
  BY <1>1, <1>2, <1>3, Invariant, PTL DEF Spec
=============================================================================

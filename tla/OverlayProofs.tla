---------------------------- MODULE OverlayProofs ----------------------------
(***************************************************************************)
(* Two parts of the overlay: its session (OverlaySession), and the editor  *)
(* of annotations in it (AnnotationEditor).                                *)
(***************************************************************************)
EXTENDS OverlaySession, AnnotationEditor, TLAPS

(***************************************************************************)
(* The overlay session, for any number of sessions and of posted events.   *)
(* The argument is about numbers: of all the grabs and answers there are,  *)
(* at most one carries the present captureSeq, and only while the gate is  *)
(* closed, so nothing else can reach the screen.                           *)
(***************************************************************************)
Grabs  == [seq : Nat, stage : {"running", "done"}, clean : BOOLEAN]
Events == [kind : {"activate"}, entry : Entries]
          \cup [kind : {"finished"}, ok : BOOLEAN, shot : Shots]

Entry(e)  == e.kind = "activate"
Answer(e, s) == e.kind = "finished" /\ e.shot.seq = s

Shape ==
  /\ mode \in {"Select", "Annotate", "RecordSelect"}
  /\ purpose \in {"Screenshot", "Record"}
  /\ visible \in BOOLEAN /\ inFlight \in BOOLEAN /\ recording \in BOOLEAN
  /\ captureSeq \in Nat
  /\ screenshot \in Shots /\ canvas \in Shots
  /\ grabs \subseteq Grabs /\ posted \in Seq(Events)

(* No grab and no answer is ahead of its time, and at most one is of now.  *)
Numbered ==
  /\ \A g \in grabs : g.seq <= captureSeq
  /\ \A i \in DOMAIN posted :
       posted[i].kind = "finished" => posted[i].shot.seq <= captureSeq
  /\ \A g, h \in grabs : g.seq = captureSeq /\ h.seq = captureSeq => g = h
  /\ \A g \in grabs, i \in DOMAIN posted :
       g.seq = captureSeq => ~Answer(posted[i], captureSeq)
  /\ \A i, j \in DOMAIN posted :
       Answer(posted[i], captureSeq) /\ Answer(posted[j], captureSeq) => i = j

(* What is of now is clean, and there is nothing of now unless in flight.  *)
Pending ==
  /\ inFlight => ~visible /\ captureSeq # 0 /\ session = captureSeq
  /\ \A g \in grabs : g.seq = captureSeq => inFlight /\ g.clean
  /\ \A i \in DOMAIN posted :
       Answer(posted[i], captureSeq) => inFlight /\ posted[i].shot.clean

(* Nothing is shown, nor about to be, in front of a posted activation.     *)
Entering ==
  \A i \in DOMAIN posted : Entry(posted[i]) =>
    /\ ~visible
    /\ posted[i].entry = "record" => ~recording
    /\ \A j \in DOMAIN posted : Answer(posted[j], captureSeq) => i < j

(* Work is drawn in front of the user only, and only where it belongs.     *)
WorkAnnotates ==
  /\ visible /\ work => mode = "Annotate"
  /\ drawing => mode = "Select"
  /\ inFlight => ~work

IInv ==
  /\ Shape /\ Numbered /\ Pending /\ Entering
  /\ ShowsOwnFrame /\ PickerOnlyWhenIdle /\ CursorFollows /\ WorkAnnotates

-----------------------------------------------------------------------------
(* The queue.                                                              *)

LEMMA EventShape ==
  ASSUME NEW e \in Events
  PROVE  /\ e.kind \in {"activate", "finished"}
         /\ e.kind = "activate" => e.entry \in Entries
         /\ e.kind = "finished" => e.ok \in BOOLEAN /\ e.shot \in Shots
                                   /\ e.shot.seq \in Nat /\ e.shot.clean \in BOOLEAN
BY DEF Events, Shots

LEMMA NoShotIsShot == NoShot \in Shots
BY DEF NoShot, Shots

(* The queue lost its first k events, and nothing else.                    *)
Shifted(k) ==
  /\ posted' \in Seq(Events)
  /\ \A i \in DOMAIN posted' :
       /\ i \in Nat /\ i + k \in DOMAIN posted
       /\ posted'[i] = posted[i + k] /\ posted[i + k] \in Events

LEMMA Stays ==
  ASSUME posted \in Seq(Events), posted' = posted
  PROVE  Shifted(0)
BY DEF Shifted

LEMMA Drops ==
  ASSUME posted \in Seq(Events), posted # <<>>, posted' = Tail(posted)
  PROVE  Shifted(1)
BY DEF Shifted

-----------------------------------------------------------------------------
(* The two steps that take a new number.  Whatever there is is of the past *)
(* then: no grab and no answer in the queue is of now.                     *)

LEMMA Past ==
  ASSUME Shape, Numbered, NEW k \in {0, 1}, Shifted(k), captureSeq' = captureSeq + 1
  PROVE  /\ captureSeq' \in Nat
         /\ \A g \in grabs : g.seq < captureSeq'
         /\ \A i \in DOMAIN posted' :
              posted'[i].kind = "finished" => posted'[i].shot.seq < captureSeq'
<1>1. captureSeq \in Nat /\ \A g \in grabs : g.seq \in Nat
  BY DEF Shape, Grabs
<1>2. ASSUME NEW i \in DOMAIN posted', posted'[i].kind = "finished"
      PROVE  posted'[i].shot.seq < captureSeq'
  <2>1. posted[i + k].shot.seq \in Nat /\ posted[i + k].shot.seq <= captureSeq
    BY <1>2, EventShape DEF Shifted, Numbered
  <2> QED BY <1>1, <1>2, <2>1 DEF Shifted
<1> QED BY <1>1, <1>2 DEF Numbered

LEMMA EndKeeps ==
  ASSUME IInv, NEW k \in {0, 1}, Shifted(k), NEW by, EndSession(by),
         screenshot' \in Shots, recording' \in BOOLEAN,
         recording' # recording => visible
  PROVE  IInv'
<1> USE DEF IInv
<1>1. /\ mode' = "Select" /\ hasRegion' = FALSE /\ drawing' = FALSE
      /\ captureSeq' = captureSeq + 1 /\ inFlight' = FALSE /\ visible' = FALSE
      /\ purpose' = purpose /\ canvas' = canvas /\ grabs' = grabs
      /\ crosshair' = WantCrosshair'
  BY DEF EndSession, hideOverlay, syncSelectCursor
<1>2. /\ captureSeq' \in Nat
      /\ \A g \in grabs : g.seq < captureSeq'
      /\ \A i \in DOMAIN posted' :
           posted'[i].kind = "finished" => posted'[i].shot.seq < captureSeq'
  BY <1>1, Past
<1>3. Shape'
  BY <1>1, <1>2 DEF Shape, Shifted
<1>4. \A i \in DOMAIN posted' : ~Answer(posted'[i], captureSeq')
  <2> SUFFICES ASSUME NEW i \in DOMAIN posted', posted'[i].kind = "finished",
                      posted'[i].shot.seq = captureSeq'
               PROVE  FALSE
    BY DEF Answer
  <2> QED BY <1>2
<1>5. \A g \in grabs' : g.seq <= captureSeq' /\ g.seq # captureSeq'
  BY <1>1, <1>2 DEF Shape, Grabs
<1>6. \A i \in DOMAIN posted' :
        posted'[i].kind = "finished" => posted'[i].shot.seq <= captureSeq'
  <2> SUFFICES ASSUME NEW i \in DOMAIN posted', posted'[i].kind = "finished"
               PROVE  posted'[i].shot.seq <= captureSeq'
    OBVIOUS
  <2>1. posted'[i].shot.seq \in Nat
    BY EventShape DEF Shifted
  <2> QED BY <1>2, <2>1
<1>7. Numbered'
  BY <1>4, <1>5, <1>6 DEF Numbered
<1>8. Pending'
  BY <1>1, <1>4, <1>5 DEF Pending
<1>9. Entering'
  <2> SUFFICES ASSUME NEW i \in DOMAIN posted', Entry(posted'[i]),
                      posted'[i].entry = "record"
               PROVE  ~recording'
    BY <1>1, <1>4 DEF Entering, Entry
  <2>1. i + k \in DOMAIN posted /\ Entry(posted[i + k]) /\ posted[i + k].entry = "record"
    BY DEF Shifted, Entry
  <2> QED BY <2>1 DEF Entering
<1>10. ShowsOwnFrame' /\ PickerOnlyWhenIdle' /\ WorkAnnotates'
  BY <1>1 DEF ShowsOwnFrame, PickerOnlyWhenIdle, WorkAnnotates
<1>11. CursorFollows'
  BY <1>1 DEF CursorFollows
<1> QED BY <1>3, <1>7, <1>8, <1>9, <1>10, <1>11

LEMMA ActivateKeeps ==
  ASSUME IInv, NEW k \in {0, 1}, Shifted(k), NEW entry \in Entries, Activate(entry),
         entry = "record" => ~recording
  PROVE  IInv'
<1> USE DEF IInv
<1> DEFINE new == [seq |-> captureSeq', stage |-> "running", clean |-> TRUE]
<1>1. /\ visible' = FALSE /\ drawing' = FALSE /\ work' = FALSE /\ inFlight' = TRUE
      /\ screenshot' = NoShot
      /\ captureSeq' = captureSeq + 1 /\ session' = captureSeq'
      /\ grabs' = grabs \cup {new}
      /\ crosshair' = WantCrosshair' /\ recording' = recording
  BY DEF Activate, activateInternal, syncSelectCursor, outside
<1>2. /\ mode' \in {"Select", "Annotate", "RecordSelect"}
      /\ purpose' \in {"Screenshot", "Record"}
      /\ purpose' = "Record" => entry = "record"
      /\ canvas' \in {canvas, screenshot'}
  BY DEF Activate, Entries, StartSelecting, enterAnnotateMode, enterRecordSelectMode
<1>3. /\ captureSeq' \in Nat
      /\ \A g \in grabs : g.seq < captureSeq'
      /\ \A i \in DOMAIN posted' :
           posted'[i].kind = "finished" => posted'[i].shot.seq < captureSeq'
  BY <1>1, Past
<1>4. Shape'
  <2>1. new \in Grabs
    BY <1>3 DEF Grabs
  <2>2. screenshot' \in Shots /\ canvas' \in Shots
    BY <1>1, <1>2, NoShotIsShot DEF Shape
  <2>3. grabs' \subseteq Grabs
    BY <1>1, <2>1 DEF Shape
  <2>4. visible' \in BOOLEAN /\ inFlight' \in BOOLEAN /\ recording' \in BOOLEAN
    BY <1>1 DEF Shape
  <2> QED BY <1>2, <1>3, <2>2, <2>3, <2>4 DEF Shape, Shifted
<1>5. \A i \in DOMAIN posted' : ~Answer(posted'[i], captureSeq')
  <2> SUFFICES ASSUME NEW i \in DOMAIN posted', posted'[i].kind = "finished",
                      posted'[i].shot.seq = captureSeq'
               PROVE  FALSE
    BY DEF Answer
  <2> QED BY <1>3
<1>6. \A g \in grabs' : g.seq <= captureSeq' /\ (g.seq = captureSeq' => g = new)
  BY <1>1, <1>3 DEF Shape, Grabs
<1>7. \A i \in DOMAIN posted' :
        posted'[i].kind = "finished" => posted'[i].shot.seq <= captureSeq'
  <2> SUFFICES ASSUME NEW i \in DOMAIN posted', posted'[i].kind = "finished"
               PROVE  posted'[i].shot.seq <= captureSeq'
    OBVIOUS
  <2>1. posted'[i].shot.seq \in Nat
    BY EventShape DEF Shifted
  <2> QED BY <1>3, <2>1
<1>8. Numbered'
  BY <1>5, <1>6, <1>7 DEF Numbered
<1>9. Pending'
  <2>1. captureSeq' # 0
    BY <1>1 DEF Shape
  <2> QED BY <1>1, <1>5, <1>6, <2>1 DEF Pending
<1>10. Entering'
  <2> SUFFICES ASSUME NEW i \in DOMAIN posted', Entry(posted'[i]),
                      posted'[i].entry = "record"
               PROVE  ~recording'
    BY <1>1, <1>5 DEF Entering, Entry
  <2>1. i + k \in DOMAIN posted /\ Entry(posted[i + k]) /\ posted[i + k].entry = "record"
    BY DEF Shifted, Entry
  <2> QED BY <1>1, <2>1 DEF Entering
<1>11. ShowsOwnFrame' /\ WorkAnnotates'
  BY <1>1 DEF ShowsOwnFrame, WorkAnnotates
<1>12. PickerOnlyWhenIdle'
  BY <1>1, <1>2 DEF PickerOnlyWhenIdle
<1>13. CursorFollows'
  BY <1>1 DEF CursorFollows
<1> QED BY <1>4, <1>8, <1>9, <1>10, <1>11, <1>12, <1>13

-----------------------------------------------------------------------------
(* The steps that keep the number: nothing becomes of now that was not.    *)

LEMMA QueueKeeps ==
  ASSUME Shape, Numbered, Pending, NEW k \in {0, 1}, Shifted(k),
         grabs' = grabs, captureSeq' = captureSeq
  PROVE  /\ Numbered'
         /\ \A g \in grabs' : g.seq = captureSeq' => inFlight /\ g.clean
         /\ \A i \in DOMAIN posted' :
              Answer(posted'[i], captureSeq') => inFlight /\ posted'[i].shot.clean
<1>1. \A i \in DOMAIN posted' :
        i + k \in DOMAIN posted /\ posted'[i] = posted[i + k] /\ i \in Nat
  BY DEF Shifted
<1>2. \A i, j \in DOMAIN posted' :
        Answer(posted'[i], captureSeq') /\ Answer(posted'[j], captureSeq') => i = j
  <2> SUFFICES ASSUME NEW i \in DOMAIN posted', NEW j \in DOMAIN posted',
                      Answer(posted'[i], captureSeq'), Answer(posted'[j], captureSeq')
               PROVE  i = j
    OBVIOUS
  <2>1. i + k = j + k
    BY <1>1 DEF Numbered
  <2> QED BY <1>1, <2>1
<1>3. \A i \in DOMAIN posted' :
        /\ posted'[i].kind = "finished" => posted'[i].shot.seq <= captureSeq'
        /\ Answer(posted'[i], captureSeq') => inFlight /\ posted'[i].shot.clean
  BY <1>1 DEF Numbered, Pending
<1>4. \A g \in grabs, i \in DOMAIN posted' :
        g.seq = captureSeq' => ~Answer(posted'[i], captureSeq')
  BY <1>1 DEF Numbered
<1>5. Numbered'
  BY <1>2, <1>3, <1>4 DEF Numbered
<1> QED BY <1>3, <1>5 DEF Pending

LEMMA EntriesKeep ==
  ASSUME Entering, NEW k \in {0, 1}, Shifted(k), captureSeq' = captureSeq,
         visible' => visible, recording' => recording
  PROVE  Entering'
<1>1. \A i \in DOMAIN posted' :
        i + k \in DOMAIN posted /\ posted'[i] = posted[i + k] /\ i \in Nat
  BY DEF Shifted
<1> SUFFICES ASSUME NEW i \in DOMAIN posted', Entry(posted'[i])
             PROVE  /\ ~visible'
                    /\ posted'[i].entry = "record" => ~recording'
                    /\ \A j \in DOMAIN posted' : Answer(posted'[j], captureSeq') => i < j
  BY DEF Entering
<1>2. Entry(posted[i + k])
  BY <1>1
<1>3. ~visible /\ (posted'[i].entry = "record" => ~recording)
  BY <1>1, <1>2 DEF Entering
<1>4. ASSUME NEW j \in DOMAIN posted', Answer(posted'[j], captureSeq')
      PROVE  i < j
  <2>1. i + k < j + k
    BY <1>1, <1>2, <1>4 DEF Entering
  <2> QED BY <1>1, <2>1
<1> QED BY <1>3, <1>4

(* What the queue lost was no activation.                                  *)
LEMMA CursorKeeps ==
  ASSUME CursorFollows, posted \in Seq(Events),
         \/ posted' = posted
         \/ posted # <<>> /\ ~Entry(Head(posted)) /\ posted' = Tail(posted),
         crosshair' = crosshair, mode' = mode, visible' = visible, hasRegion' = hasRegion
  PROVE  CursorFollows'
<1> SUFFICES ASSUME \A i \in DOMAIN posted' : ~Entry(posted'[i])
             PROVE  crosshair' = WantCrosshair'
  BY DEF CursorFollows, Entry
<1>1. \A i \in DOMAIN posted : ~Entry(posted[i])
  <2>1. CASE posted' = posted
    BY <2>1
  <2>2. CASE posted # <<>> /\ ~Entry(Head(posted)) /\ posted' = Tail(posted)
    <3> SUFFICES ASSUME NEW i \in DOMAIN posted, i # 1
                 PROVE  ~Entry(posted[i])
      BY <2>2
    <3>1. i - 1 \in DOMAIN posted' /\ posted'[i - 1] = posted[i]
      BY <2>2
    <3> QED BY <3>1
  <2> QED BY <2>1, <2>2
<1>2. crosshair = WantCrosshair
  BY <1>1 DEF CursorFollows, Entry
<1> QED BY <1>2 DEF WantCrosshair


LEMMA StillKeeps ==
  ASSUME IInv, NEW k \in {0, 1}, Shifted(k),
         grabs' = grabs, captureSeq' = captureSeq, session' = session,
         inFlight' = inFlight, visible' = visible, recording' => recording
  PROVE  Numbered' /\ Pending' /\ Entering'
<1>1. /\ Numbered'
      /\ \A g \in grabs' : g.seq = captureSeq' => inFlight /\ g.clean
      /\ \A i \in DOMAIN posted' :
           Answer(posted'[i], captureSeq') => inFlight /\ posted'[i].shot.clean
  BY QueueKeeps DEF IInv
<1>2. Pending'
  BY <1>1 DEF IInv, Pending
<1>3. Entering'
  BY EntriesKeep DEF IInv
<1> QED BY <1>1, <1>2, <1>3

LEMMA SameKeeps ==
  ASSUME IInv, UNCHANGED <<window, frames, grabs>>, recording' \in BOOLEAN,
         recording' => recording,
         \/ posted' = posted
         \/ posted # <<>> /\ ~Entry(Head(posted)) /\ posted' = Tail(posted)
  PROVE  IInv'
<1> USE DEF IInv, window, frames
<1>1. PICK k \in {0, 1} : Shifted(k)
  BY Stays, Drops DEF Shape
<1>2. Shape'
  BY <1>1 DEF Shape, Shifted
<1>3. Numbered' /\ Pending' /\ Entering'
  BY <1>1, StillKeeps
<1>4. ShowsOwnFrame' /\ PickerOnlyWhenIdle' /\ WorkAnnotates'
  BY DEF ShowsOwnFrame, PickerOnlyWhenIdle, WorkAnnotates
<1>5. CursorFollows'
  BY CursorKeeps DEF Shape
<1> QED BY <1>2, <1>3, <1>4, <1>5

-----------------------------------------------------------------------------
(* The steps one by one.                                                   *)

LEMMA HotkeyKeeps ==
  ASSUME IInv, NEW entry \in Entries, hotkeyHandler(entry)
  PROVE  IInv'
<1> USE DEF IInv
<1> DEFINE new == [kind |-> "activate", entry |-> entry]
<1>1. /\ visible' = FALSE /\ posted' = Append(posted, new)
      /\ UNCHANGED <<mode, purpose, hasRegion, drawing, work, inFlight, captureSeq,
                     screenshot, canvas, session, recording, grabs>>
  BY DEF hotkeyHandler, outside
<1>2. ~inFlight /\ (entry = "record" => ~recording)
  BY DEF hotkeyHandler, MayEnter, isBusy
<1>3. posted \in Seq(Events) /\ new \in Events /\ Len(posted) \in Nat
  BY DEF Events, Shape
<1>4. /\ posted' \in Seq(Events) /\ DOMAIN posted' = 1..(Len(posted) + 1)
      /\ \A i \in DOMAIN posted : posted'[i] = posted[i]
      /\ posted'[Len(posted) + 1] = new
      /\ DOMAIN posted = 1..Len(posted)
  BY <1>1, <1>3
<1>5. \A i \in DOMAIN posted' : i \in DOMAIN posted \/ posted'[i] = new
  BY <1>3, <1>4
<1>6. Shape'
  BY <1>1, <1>4 DEF Shape
<1>7. \A i \in DOMAIN posted' :
        /\ ~Answer(posted'[i], captureSeq')
        /\ posted'[i].kind = "finished" => posted'[i].shot.seq <= captureSeq'
  BY <1>1, <1>2, <1>4, <1>5 DEF Pending, Numbered, Answer
<1>8. Numbered'
  BY <1>1, <1>7 DEF Numbered
<1>9. Pending'
  BY <1>1, <1>2, <1>7 DEF Pending
<1>10. Entering'
  <2> SUFFICES ASSUME NEW i \in DOMAIN posted', Entry(posted'[i]),
                      posted'[i].entry = "record"
               PROVE  ~recording'
    BY <1>1, <1>7 DEF Entering
  <2> QED BY <1>1, <1>2, <1>4, <1>5 DEF Entering
<1>11. ShowsOwnFrame' /\ PickerOnlyWhenIdle' /\ WorkAnnotates'
  BY <1>1, <1>2 DEF ShowsOwnFrame, PickerOnlyWhenIdle, WorkAnnotates
<1>12. CursorFollows'
  <2>1. Len(posted) + 1 \in DOMAIN posted' /\ posted'[Len(posted) + 1].kind = "activate"
    BY <1>3, <1>4
  <2> QED BY <2>1 DEF CursorFollows
<1> QED BY <1>6, <1>8, <1>9, <1>10, <1>11, <1>12

LEMMA GrabKeeps ==
  ASSUME IInv, NEW g \in grabs, Grab(g)
  PROVE  IInv'
<1> USE DEF IInv
<1> DEFINE new == [g EXCEPT !.stage = "done", !.clean = ~visible]
<1>1. /\ grabs' = (grabs \ {g}) \cup {new}
      /\ UNCHANGED <<window, frames, recording, posted>>
  BY DEF Grab, outside
<1>2. /\ new \in Grabs /\ new.seq = g.seq
      /\ visible = FALSE => new.clean = TRUE
  BY DEF Shape, Grabs
<1>3. Shape'
  BY <1>1, <1>2 DEF Shape, window, frames
<1>4. \A h \in grabs' : h # new => h \in grabs /\ h # g
  BY <1>1
<1>5. Numbered'
  <2>1. captureSeq' = captureSeq /\ posted' = posted
    BY <1>1 DEF frames
  <2>2. \A h, m \in grabs' : h.seq = captureSeq' /\ m.seq = captureSeq' => h = m
    BY <1>2, <1>4, <2>1 DEF Numbered
  <2>3. \A h \in grabs' : h.seq <= captureSeq'
    BY <1>2, <1>4, <2>1 DEF Numbered
  <2>4. \A h \in grabs', i \in DOMAIN posted' :
          h.seq = captureSeq' => ~Answer(posted'[i], captureSeq')
    BY <1>2, <1>4, <2>1 DEF Numbered
  <2> QED BY <2>1, <2>2, <2>3, <2>4 DEF Numbered
<1>6. Pending'
  <2>1. \A h \in grabs' : h.seq = captureSeq' => inFlight /\ h.clean
    <3> SUFFICES ASSUME NEW h \in grabs', h.seq = captureSeq
                 PROVE  inFlight /\ h.clean
      BY <1>1 DEF frames
    <3>1. CASE h # new
      BY <1>4, <3>1 DEF Pending
    <3>2. CASE h = new
      <4>1. inFlight
        BY <1>2, <3>2 DEF Pending
      <4>2. visible = FALSE
        BY <4>1 DEF Pending, Shape
      <4> QED BY <1>2, <3>2, <4>1, <4>2
    <3> QED BY <3>1, <3>2
  <2> QED BY <1>1, <2>1 DEF Pending, window, frames
<1>7. Entering'
  BY <1>1 DEF Entering, window, frames
<1>8. ShowsOwnFrame' /\ PickerOnlyWhenIdle' /\ WorkAnnotates'
  BY <1>1 DEF ShowsOwnFrame, PickerOnlyWhenIdle, WorkAnnotates, window, frames
<1>9. CursorFollows'
  BY <1>1, CursorKeeps DEF Shape, window
<1> QED BY <1>3, <1>5, <1>6, <1>7, <1>8, <1>9


LEMMA ReturnKeeps ==
  ASSUME IInv, NEW g \in grabs, GrabReturns(g)
  PROVE  IInv'
<1> USE DEF IInv
<1>1. PICK ok \in BOOLEAN :
        posted' = Append(posted, [kind |-> "finished", ok |-> ok,
                                  shot |-> [seq |-> g.seq, clean |-> g.clean]])
  BY DEF GrabReturns
<1> DEFINE shot == [seq |-> g.seq, clean |-> g.clean]
           new  == [kind |-> "finished", ok |-> ok, shot |-> shot]
<1>2. grabs' = grabs \ {g} /\ UNCHANGED <<window, frames, recording>>
  BY DEF GrabReturns, outside
<1>3. g \in Grabs /\ g.seq <= captureSeq
  BY DEF Shape, Numbered
<1>4. shot \in Shots /\ shot.seq = g.seq /\ shot.clean = g.clean
  BY <1>3 DEF Grabs, Shots
<1>5. new \in Events /\ new.kind = "finished" /\ new.shot = shot
  BY <1>4 DEF Events
<1> HIDE DEF shot, new
<1>6. /\ posted \in Seq(Events) /\ Len(posted) \in Nat /\ DOMAIN posted = 1..Len(posted)
      /\ posted' = Append(posted, new)
  BY <1>1 DEF Shape, new, shot
<1>7. /\ posted' \in Seq(Events) /\ DOMAIN posted' = 1..(Len(posted) + 1)
      /\ \A i \in DOMAIN posted : posted'[i] = posted[i]
      /\ posted'[Len(posted) + 1] = new
  BY <1>5, <1>6
<1>8. \A i \in DOMAIN posted' :
        \/ i \in DOMAIN posted /\ posted'[i] = posted[i]
        \/ i = Len(posted) + 1 /\ posted'[i] = new
  BY <1>6, <1>7
<1>9. Shape'
  BY <1>2, <1>7 DEF Shape, window, frames
<1>10. Answer(new, captureSeq) => /\ g.seq = captureSeq /\ inFlight /\ new.shot.clean
                                  /\ \A i \in DOMAIN posted : ~Answer(posted[i], captureSeq)
                                  /\ \A h \in grabs' : h.seq # captureSeq
  BY <1>2, <1>4, <1>5 DEF Answer, Pending, Numbered
<1>11. captureSeq' = captureSeq /\ inFlight' = inFlight /\ visible' = visible
       /\ session' = session /\ recording' = recording
  BY <1>2 DEF window, frames
<1>12. Numbered'
  <2>1. \A i \in DOMAIN posted' :
          posted'[i].kind = "finished" => posted'[i].shot.seq <= captureSeq'
    BY <1>3, <1>4, <1>5, <1>8, <1>11 DEF Numbered
  <2>2. \A i, j \in DOMAIN posted' :
          Answer(posted'[i], captureSeq') /\ Answer(posted'[j], captureSeq') => i = j
    BY <1>8, <1>10, <1>11 DEF Numbered
  <2>3. \A h \in grabs', i \in DOMAIN posted' :
          h.seq = captureSeq' => ~Answer(posted'[i], captureSeq')
    BY <1>2, <1>8, <1>10, <1>11 DEF Numbered
  <2> QED BY <1>2, <1>11, <2>1, <2>2, <2>3 DEF Numbered
<1>13. Pending'
  BY <1>2, <1>8, <1>10, <1>11 DEF Pending
<1>14. Entering'
  <2> SUFFICES ASSUME NEW i \in DOMAIN posted', Entry(posted'[i])
               PROVE  /\ ~visible'
                      /\ posted'[i].entry = "record" => ~recording'
                      /\ \A j \in DOMAIN posted' : Answer(posted'[j], captureSeq') => i < j
    BY DEF Entering
  <2>1. i \in DOMAIN posted /\ posted'[i] = posted[i] /\ i < Len(posted) + 1
    BY <1>5, <1>6, <1>8 DEF Entry
  <2>2. \A j \in DOMAIN posted' : Answer(posted'[j], captureSeq') => i < j
    BY <1>8, <1>11, <2>1 DEF Entering
  <2> QED BY <1>11, <2>1, <2>2 DEF Entering
<1>15. ShowsOwnFrame' /\ PickerOnlyWhenIdle' /\ WorkAnnotates'
  BY <1>2 DEF ShowsOwnFrame, PickerOnlyWhenIdle, WorkAnnotates, window, frames
<1>16. CursorFollows'
  <2> SUFFICES ASSUME \A i \in DOMAIN posted' : ~Entry(posted'[i])
               PROVE  crosshair' = WantCrosshair'
    BY DEF CursorFollows, Entry
  <2>1. \A i \in DOMAIN posted : i \in DOMAIN posted' /\ ~Entry(posted[i])
    BY <1>6, <1>7
  <2>2. crosshair = WantCrosshair
    BY <2>1 DEF CursorFollows, Entry
  <2> QED BY <1>2, <2>2 DEF WantCrosshair, window
<1> QED BY <1>9, <1>12, <1>13, <1>14, <1>15, <1>16

LEMMA RunKeeps ==
  ASSUME IInv, RunPosted
  PROVE  IInv'
<1> USE DEF IInv
<1> DEFINE e == Head(posted)
<1>1. /\ posted \in Seq(Events) /\ posted # <<>> /\ posted' = Tail(posted)
      /\ 1 \in DOMAIN posted /\ e = posted[1] /\ e \in Events
  BY DEF RunPosted, Shape
<1>2. Shifted(1)
  BY <1>1, Drops
<1>3. CASE e.kind = "activate"
  <2>1. Activate(e.entry) /\ e.entry \in Entries
    BY <1>1, <1>3, EventShape DEF RunPosted
  <2>2. e.entry = "record" => ~recording
    BY <1>1, <1>3 DEF Entering, Entry
  <2> QED BY <1>2, <2>1, <2>2, ActivateKeeps
<1>4. CASE e.kind = "finished"
  <2>1. Finished(e.ok, e.shot) /\ e.shot \in Shots /\ ~Entry(e)
    BY <1>1, <1>4, EventShape DEF RunPosted, Entry
  <2>2. CASE e.shot.seq # captureSeq
    BY <1>1, <2>1, <2>2, SameKeeps DEF Finished, Shape, outside
  <2>3. CASE e.shot.seq = captureSeq /\ ~e.ok
    <3>1. handleCaptureFailure
      BY <2>1, <2>3 DEF Finished
    <3>2. /\ EndSession("failure") /\ screenshot' \in Shots
          /\ recording' = recording /\ recording' \in BOOLEAN
      BY <3>1, NoShotIsShot DEF handleCaptureFailure, Shape
    <3> QED BY <1>2, <3>2, EndKeeps
  <2>4. CASE e.shot.seq = captureSeq /\ e.ok
    <3>1. /\ inFlight' = FALSE /\ screenshot' = e.shot /\ visible' = TRUE
          /\ canvas' = IF mode = "Annotate" THEN e.shot ELSE canvas
          /\ crosshair' = WantCrosshair'
          /\ UNCHANGED <<mode, purpose, hasRegion, drawing, work, captureSeq,
                         session, recording, grabs>>
      BY <2>1, <2>4 DEF Finished, presentOverlay, syncSelectCursor, outside
    <3>2. Answer(posted[1], captureSeq)
      BY <1>1, <1>4, <2>4 DEF Answer
    <3>3. inFlight /\ e.shot.clean /\ captureSeq # 0 /\ session = captureSeq
      BY <1>1, <3>2 DEF Pending
    <3>4. Shape'
      BY <1>2, <2>1, <3>1 DEF Shape, Shifted
    <3>5. Numbered'
      BY <1>2, <3>1, QueueKeeps
    <3>6. \A i \in DOMAIN posted' : ~Answer(posted'[i], captureSeq') /\ ~Entry(posted'[i])
      <4> SUFFICES ASSUME NEW i \in DOMAIN posted'
                   PROVE  ~Answer(posted'[i], captureSeq') /\ ~Entry(posted'[i])
        OBVIOUS
      <4>1. i \in Nat /\ i + 1 \in DOMAIN posted /\ i + 1 # 1 /\ posted'[i] = posted[i + 1]
            /\ i # 0
        BY <1>1, <1>2 DEF Shifted
      <4>2. ~Answer(posted'[i], captureSeq')
        BY <1>1, <3>1, <3>2, <4>1 DEF Numbered
      <4>3. ~Entry(posted'[i])
        <5>1. ~(i + 1 < 1)
          BY <4>1
        <5> QED BY <1>1, <3>2, <4>1, <5>1 DEF Entering
      <4> QED BY <4>2, <4>3
    <3>7. \A g \in grabs : g.seq # captureSeq
      BY <1>1, <3>2 DEF Numbered
    <3>8. Pending'
      BY <3>1, <3>6, <3>7 DEF Pending
    <3>9. Entering'
      BY <3>6 DEF Entering
    <3>10. ShowsOwnFrame'
      BY <2>4, <3>1, <3>3 DEF ShowsOwnFrame
    <3>11. PickerOnlyWhenIdle' /\ WorkAnnotates'
      BY <3>1, <3>3 DEF PickerOnlyWhenIdle, WorkAnnotates
    <3>12. CursorFollows'
      BY <3>1 DEF CursorFollows
    <3> QED BY <3>4, <3>5, <3>8, <3>9, <3>10, <3>11, <3>12
  <2> QED BY <2>2, <2>3, <2>4
<1> QED BY <1>1, <1>3, <1>4, EventShape


(* What the user does at the overlay while it stays on screen.             *)
LEMMA TouchKeeps ==
  ASSUME IInv, visible, mode' \in {"Select", "Annotate", "RecordSelect"}, canvas' \in Shots,
         UNCHANGED <<purpose, visible, inFlight, captureSeq, screenshot, session,
                     recording, posted, grabs>>,
         crosshair' = WantCrosshair',
         mode' = "Annotate" => canvas' = screenshot,
         work' => mode' = "Annotate",
         drawing' => mode' = "Select"
  PROVE  IInv'
<1> USE DEF IInv
<1>1. Shifted(0)
  BY Stays DEF Shape
<1>2. Shape'
  BY DEF Shape
<1>3. Numbered' /\ Pending' /\ Entering'
  BY <1>1, StillKeeps
<1>4. ShowsOwnFrame' /\ PickerOnlyWhenIdle'
  BY DEF ShowsOwnFrame, PickerOnlyWhenIdle
<1>5. WorkAnnotates'
  BY DEF WorkAnnotates, Pending
<1>6. CursorFollows'
  BY DEF CursorFollows
<1> QED BY <1>2, <1>3, <1>4, <1>5, <1>6

LEMMA CancelKeeps ==
  ASSUME IInv, NEW by, cancelSession(by), posted' = posted
  PROVE  IInv'
<1>1. /\ EndSession(by) /\ screenshot' \in Shots
      /\ recording' = recording /\ recording' \in BOOLEAN
  BY DEF cancelSession, IInv, Shape
<1>2. Shifted(0)
  BY Stays DEF IInv, Shape
<1> QED BY <1>1, <1>2, EndKeeps

LEMMA FailureKeeps ==
  ASSUME IInv, handleCaptureFailure, posted' = posted
  PROVE  IInv'
<1>1. /\ EndSession("failure") /\ screenshot' \in Shots
      /\ recording' = recording /\ recording' \in BOOLEAN
  BY NoShotIsShot DEF handleCaptureFailure, IInv, Shape
<1>2. Shifted(0)
  BY Stays DEF IInv, Shape
<1> QED BY <1>1, <1>2, EndKeeps

LEMMA UserKeeps ==
  ASSUME IInv, UserStep
  PROVE  IInv'
<1> USE DEF IInv
<1>1. Shifted(0) \/ posted' # posted
  BY Stays DEF Shape
<1>2. ASSUME PressInSelect \/ PressBesideRecordRegion
      PROVE  IInv'
  <2>1. visible /\ ~work
    BY <1>2 DEF PressInSelect, PressBesideRecordRegion, Draws, WorkAnnotates
  <2>2. /\ mode' = "Select" /\ crosshair' = WantCrosshair' /\ canvas' = canvas
        /\ UNCHANGED <<purpose, visible, work, inFlight, captureSeq, screenshot, session,
                       recording, posted, grabs>>
    BY <1>2 DEF PressInSelect, PressBesideRecordRegion, Draws, syncSelectCursor,
                frames, outside, loop
  <2> QED BY <2>1, <2>2, TouchKeeps DEF Shape
<1>3. CASE Release
  <2>1. /\ visible /\ drawing /\ drawing' = FALSE /\ crosshair' = WantCrosshair'
        /\ UNCHANGED <<purpose, visible, work, inFlight, captureSeq, screenshot, session,
                       recording, posted, grabs>>
    BY <1>3 DEF Release, syncSelectCursor, outside, loop
  <2>2. \/ mode' = mode /\ canvas' = canvas
        \/ mode' = "RecordSelect" /\ canvas' = canvas
        \/ mode' = "Annotate" /\ canvas' = screenshot
    BY <1>3, <2>1 DEF Release, enterRecordSelectMode, enterAnnotateMode
  <2>3. mode = "Select" /\ ~work
    BY <2>1 DEF WorkAnnotates
  <2>4. /\ mode' \in {"Select", "Annotate", "RecordSelect"} /\ canvas' \in Shots
        /\ mode' = "Annotate" => canvas' = screenshot
    BY <2>2, <2>3 DEF Shape
  <2> QED BY <2>1, <2>3, <2>4, TouchKeeps
<1>4. CASE Edit
  <2>1. /\ visible /\ mode = "Annotate" /\ ~drawing
        /\ UNCHANGED <<mode, purpose, visible, hasRegion, drawing, inFlight, captureSeq,
                       screenshot, canvas, session, recording, posted, grabs, crosshair>>
    BY <1>4 DEF Edit, frames, outside, loop, WorkAnnotates
  <2>2. Shape' /\ Numbered' /\ Pending' /\ Entering' /\ ShowsOwnFrame' /\ PickerOnlyWhenIdle'
    BY <1>1, <2>1, StillKeeps DEF Shape, ShowsOwnFrame, PickerOnlyWhenIdle
  <2>3. WorkAnnotates'
    BY <2>1 DEF WorkAnnotates, Pending
  <2>4. CursorFollows'
    BY <2>1, CursorKeeps DEF Shape
  <2> QED BY <2>2, <2>3, <2>4
<1>5. CASE StrayClick \/ Cancel
  BY <1>5, CancelKeeps DEF StrayClick, Cancel
<1>6. CASE Commit
  <2>1. /\ EndSession("commit") /\ screenshot' \in Shots
        /\ recording' = recording /\ recording' \in BOOLEAN /\ posted' = posted
    BY <1>6 DEF Commit, Shape
  <2> QED BY <1>1, <2>1, EndKeeps
<1>7. CASE \E drawn \in BOOLEAN : emitRecord(drawn)
  <2>1. /\ EndSession("commit") /\ screenshot' \in Shots
        /\ recording' \in BOOLEAN /\ visible /\ posted' = posted
    BY <1>7 DEF emitRecord, Shape
  <2> QED BY <1>1, <2>1, EndKeeps
<1> QED BY <1>2, <1>3, <1>4, <1>5, <1>6, <1>7 DEF UserStep

-----------------------------------------------------------------------------
(* The theorems.                                                           *)

LEMMA Initially == Init => IInv
<1> SUFFICES ASSUME Init PROVE IInv
  OBVIOUS
<1>1. posted = <<>> /\ grabs = {} /\ inFlight = FALSE
  BY DEF Init
<1>2. DOMAIN posted = {} /\ posted \in Seq(Events)
  BY <1>1
<1>3. Shape
  BY <1>1, <1>2, NoShotIsShot DEF Init, Shape
<1>4. Numbered /\ Pending /\ Entering
  BY <1>1, <1>2 DEF Numbered, Pending, Entering
<1>5. ShowsOwnFrame /\ PickerOnlyWhenIdle /\ CursorFollows /\ WorkAnnotates
  BY DEF Init, ShowsOwnFrame, PickerOnlyWhenIdle, CursorFollows, WantCrosshair, WorkAnnotates
<1> QED BY <1>3, <1>4, <1>5 DEF IInv

LEMMA Inductive == IInv /\ [Next]_vars => IInv'
<1> SUFFICES ASSUME IInv, [Next]_vars PROVE IInv'
  OBVIOUS
<1>0. Shape /\ (posted' = posted => Shifted(0))
  BY Stays DEF IInv, Shape
<1>1. ASSUME NEW entry \in Entries, TrayAction(entry) PROVE IInv'
  BY <1>0, <1>1, ActivateKeeps DEF TrayAction, MayEnter
<1>2. ASSUME NEW entry \in Entries, hotkeyHandler(entry) PROVE IInv'
  BY <1>2, HotkeyKeeps
<1>3. ASSUME UNCHANGED vars PROVE IInv'
  BY <1>0, <1>3, SameKeeps DEF vars, outside, loop, Shape
<1>4. ASSUME NEW g \in grabs, Grab(g) \/ GrabReturns(g) PROVE IInv'
  BY <1>4, GrabKeeps, ReturnKeeps
<1>5. CASE RunPosted
  BY <1>5, RunKeeps
<1>6. ASSUME NEW s \in watchdogs, Watchdog(s) PROVE IInv'
  <2>1. CASE s = captureSeq /\ inFlight
    BY <1>6, <2>1, FailureKeeps DEF Watchdog
  <2>2. CASE ~(s = captureSeq /\ inFlight)
    BY <1>0, <1>6, <2>2, SameKeeps DEF Watchdog, outside, Shape
  <2> QED BY <2>1, <2>2
<1>7. CASE UserStep
  BY <1>7, UserKeeps
<1>8. CASE onScreenConfigChanged
  BY <1>8, CancelKeeps DEF onScreenConfigChanged
<1>9. CASE handleSystemWake
  <2>1. /\ EndSession("wake") /\ screenshot' \in Shots
        /\ recording' = recording /\ recording' \in BOOLEAN /\ posted' = posted
    BY <1>0, <1>9, NoShotIsShot DEF handleSystemWake, Shape
  <2> QED BY <1>0, <2>1, EndKeeps
<1>10. CASE RecordingEnds
  BY <1>10, SameKeeps DEF RecordingEnds, loop
<1> QED BY <1>1, <1>2, <1>3, <1>4, <1>5, <1>6, <1>7, <1>8, <1>9, <1>10 DEF Next, Ignored

LEMMA Invariant == Spec => []IInv
BY Initially, Inductive, PTL DEF Spec

(* What is on screen is the frame of this very session.                    *)
THEOREM OwnFrame == Spec => []ShowsOwnFrame
BY Invariant, PTL DEF IInv

(* No region picker is open, nor about to open, while a recording runs.    *)
THEOREM PickerWhenIdle == Spec => []PickerOnlyWhenIdle
BY Invariant, PTL DEF IInv

(* The crosshair is held exactly while a region is to be drawn.            *)
THEOREM Cursor == Spec => []CursorFollows
BY Invariant, PTL DEF IInv

(* Both together: the session's mode agrees with recording and cursor.     *)
THEOREM Mode == Spec => []ModeConsistent
BY PickerWhenIdle, Cursor, PTL DEF ModeConsistent

LEMMA EndsByChoice ==
  ASSUME IInv, [Next]_vars, visible, work, ~visible'
  PROVE  ended' \in {"commit", "cancel", "layout", "wake"}
<1>0. isBusy /\ ~inFlight /\ mode = "Annotate"
  BY DEF IInv, WorkAnnotates, Pending, isBusy
<1>1. ASSUME NEW entry \in Entries, TrayAction(entry) \/ hotkeyHandler(entry) PROVE FALSE
  BY <1>0, <1>1 DEF TrayAction, hotkeyHandler, MayEnter
<1>2. ASSUME UNCHANGED window PROVE FALSE
  BY <1>2 DEF window
<1>3. ASSUME NEW g \in grabs, Grab(g) \/ GrabReturns(g) PROVE FALSE
  BY <1>2, <1>3 DEF Grab, GrabReturns
<1>4. CASE RunPosted
  <2> DEFINE e == Head(posted)
  <2>1. posted \in Seq(Events) /\ posted # <<>> /\ 1 \in DOMAIN posted /\ e = posted[1]
        /\ e \in Events
    BY <1>4 DEF RunPosted, IInv, Shape
  <2>2. e.kind = "finished"
    BY <2>1, EventShape DEF IInv, Entering, Entry
  <2>3. e.shot.seq # captureSeq
    BY <1>0, <2>1, <2>2 DEF IInv, Pending, Answer
  <2> QED BY <1>2, <1>4, <2>2, <2>3 DEF RunPosted, Finished
<1>5. ASSUME NEW s \in watchdogs, Watchdog(s) PROVE FALSE
  BY <1>0, <1>2, <1>5 DEF Watchdog
<1>6. CASE UserStep
  <2>1. ASSUME visible' = visible PROVE FALSE
    BY <2>1
  <2>2. ~(PressInSelect \/ PressBesideRecordRegion \/ Release \/ Edit)
    BY <2>1 DEF PressInSelect, PressBesideRecordRegion, Draws, Release, Edit
  <2>3. CASE StrayClick \/ Cancel
    BY <2>3 DEF StrayClick, Cancel, cancelSession, EndSession
  <2>4. CASE Commit \/ \E drawn \in BOOLEAN : emitRecord(drawn)
    BY <2>4 DEF Commit, emitRecord, EndSession
  <2> QED BY <1>6, <2>2, <2>3, <2>4 DEF UserStep
<1>7. CASE onScreenConfigChanged \/ handleSystemWake
  BY <1>7 DEF onScreenConfigChanged, handleSystemWake, cancelSession, EndSession
<1>8. CASE RecordingEnds
  BY <1>2, <1>8 DEF RecordingEnds
<1> QED BY <1>1, <1>2, <1>3, <1>4, <1>5, <1>6, <1>7, <1>8 DEF Next, Ignored, vars

(* Drawn work leaves the screen only by an explicit end of the session, a  *)
(* changed screen layout or a wake.                                        *)
THEOREM Work == Spec => WorkSurvives
<1>1. IInv /\ [Next]_vars
        => [visible /\ work /\ ~visible'
              => ended' \in {"commit", "cancel", "layout", "wake"}]_vars
  BY EndsByChoice
<1> QED BY <1>1, Invariant, PTL DEF Spec, WorkSurvives

(***************************************************************************)
(* The annotation editor, for any width, number of marks and undo depth.   *)
(* The invariant says of every drawing there is - current, undone and      *)
(* redoable - what the properties say of the current one: undo and redo    *)
(* only choose among them, a resize moves them all.                        *)
(***************************************************************************)
(* Shapes of the variables.  What the two stacks hold together is bounded, *)
(* since undoing and redoing only moves drawings between them.             *)
MarkSet == [id : Nat \ {0}, kind : {"text", "step", "shape"}, pos : Int,
            number : Nat, label : BOOLEAN]
Fields == {NoEditor} \cup [kind : {"text"}, pos : Int, at : Int, typed : BOOLEAN]
                     \cup [kind : {"step"}, id : Nat, typed : BOOLEAN]
Grips == {NoGrip} \cup [edge : {"left", "right", "other"}, left : Int, right : Int]
DrawingTypes ==
  /\ marks \in Seq(MarkSet)
  /\ undoStack \in Seq(Seq(MarkSet)) /\ redoStack \in Seq(Seq(MarkSet))
  /\ Len(undoStack) + Len(redoStack) <= MaxUndo
EditorTypes ==
  /\ left \in Int /\ right \in Int /\ grip \in Grips
  /\ DrawingTypes
  /\ active \in MarkSet \cup {NoMark} /\ (active # NoMark => active.kind = "shape")
  /\ nextStep \in Nat \ {0}
  /\ editor \in Fields
  /\ placed \in Seq(Int)

(* One gesture at a time: no field is open while a mark is drawn or an     *)
(* edge is dragged, and a text field is where it was opened.               *)
Gestures ==
  /\ active # NoMark => dragging
  /\ editor # NoEditor => active = NoMark /\ grip = NoGrip
  /\ editor.kind = "text" => left + editor.pos = editor.at

(* The region, and the one a drag started from, are real ones.             *)
RegionInv ==
  /\ RegionSound
  /\ grip # NoGrip => 0 <= grip.left /\ grip.right < Width /\ grip.right - grip.left >= MinSpan

(* Every drawing, current, undone or redoable, has its marks in place, no  *)
(* mark twice, not the one being drawn, and its steps numbered 1 .. n.     *)
OnPlace(m) == m.id \in DOMAIN placed /\ left + m.pos = placed[m.id]
Distinct(ms) == \A i, j \in DOMAIN ms : ms[i].id = ms[j].id => i = j
Ascending(ms) ==
  \A i, j \in DOMAIN ms :
    i < j /\ ms[i].kind = "step" /\ ms[j].kind = "step" => ms[i].number < ms[j].number
Well(ms) ==
  /\ \A i \in DOMAIN ms : OnPlace(ms[i]) /\ ms[i].id # active.id
  /\ Distinct(ms) /\ Ascending(ms) /\ \E n \in Nat : Steps(ms) = 1 .. n
Drawings ==
  /\ \A ms \in Everywhere : Well(ms)
  /\ Steps(marks) = 1 .. nextStep - 1
  /\ active # NoMark => OnPlace(active)

EditorInv == EditorTypes /\ Gestures /\ RegionInv /\ Drawings

-----------------------------------------------------------------------------
(* What the operations do to one drawing.                                  *)

(* Drawings that differ in labels and places only.                         *)
SameMarks(ms, ns) ==
  /\ DOMAIN ns = DOMAIN ms
  /\ \A i \in DOMAIN ms : ns[i].id = ms[i].id /\ ns[i].kind = ms[i].kind /\ ns[i].number = ms[i].number

LEMMA SameMarksFacts ==
  ASSUME NEW ms, NEW ns, SameMarks(ms, ns)
  PROVE  /\ Steps(ns) = Steps(ms)
         /\ Distinct(ms) => Distinct(ns)
         /\ Ascending(ms) => Ascending(ns)
<1>1. Steps(ns) = Steps(ms)
  BY DEF SameMarks, Steps
<1>2. Distinct(ms) => Distinct(ns)
  BY DEF SameMarks, Distinct
<1>3. Ascending(ms) => Ascending(ns)
  BY DEF SameMarks, Ascending
<1> QED
  BY <1>1, <1>2, <1>3

LEMMA MovedFacts ==
  ASSUME NEW m \in MarkSet, NEW d \in Int
  PROVE  /\ Moved(m, d) \in MarkSet /\ Moved(m, d).pos = m.pos + d
         /\ Moved(m, d).id = m.id /\ Moved(m, d).kind = m.kind
         /\ Moved(m, d).number = m.number /\ Moved(m, d).label = m.label
<1>1. Moved(m, d) = [m EXCEPT !.pos = @ + d]
  BY DEF Moved, NoMark, MarkSet
<1>2. m.pos + d \in Int
  BY DEF MarkSet
<1> QED
  BY <1>1, <1>2 DEF MarkSet

LEMMA AllMovedFacts ==
  ASSUME NEW ms \in Seq(MarkSet), NEW d \in Int
  PROVE  /\ AllMoved(ms, d) \in Seq(MarkSet) /\ SameMarks(ms, AllMoved(ms, d))
         /\ \A i \in DOMAIN ms : AllMoved(ms, d)[i].pos = ms[i].pos + d
                              /\ AllMoved(ms, d)[i].label = ms[i].label
<1>1. \A i \in DOMAIN ms : ms[i] \in MarkSet
  OBVIOUS
<1>2. \A i \in DOMAIN ms : Moved(ms[i], d) \in MarkSet
  BY <1>1, MovedFacts
<1>3. AllMoved(ms, d) \in Seq(MarkSet) /\ DOMAIN AllMoved(ms, d) = DOMAIN ms
  BY <1>2 DEF AllMoved
<1>4. \A i \in DOMAIN ms : AllMoved(ms, d)[i] = Moved(ms[i], d)
  BY DEF AllMoved
<1>5. \A i \in DOMAIN ms :
        /\ Moved(ms[i], d).pos = ms[i].pos + d /\ Moved(ms[i], d).label = ms[i].label
        /\ Moved(ms[i], d).id = ms[i].id /\ Moved(ms[i], d).kind = ms[i].kind
        /\ Moved(ms[i], d).number = ms[i].number
  BY <1>1, MovedFacts
<1> QED
  BY <1>3, <1>4, <1>5 DEF SameMarks

(* A new mark adds itself, and the next number if it is a step.            *)
LEMMA AppendFacts ==
  ASSUME NEW ms \in Seq(MarkSet), NEW a \in MarkSet
  PROVE  /\ Append(ms, a) \in Seq(MarkSet)
         /\ DOMAIN Append(ms, a) = DOMAIN ms \cup {Len(ms) + 1} /\ Len(ms) + 1 \notin DOMAIN ms
         /\ \A i \in DOMAIN ms : Append(ms, a)[i] = ms[i]
         /\ Append(ms, a)[Len(ms) + 1] = a
         /\ \A i \in DOMAIN ms : i < Len(ms) + 1
  OBVIOUS

LEMMA AppendWell ==
  ASSUME NEW ms \in Seq(MarkSet), NEW a \in MarkSet, Distinct(ms), Ascending(ms),
         \A i \in DOMAIN ms : ms[i].id # a.id,
         NEW n \in Nat, Steps(ms) = 1 .. n
  PROVE  /\ Distinct(Append(ms, a))
         /\ a.kind # "step" => Ascending(Append(ms, a)) /\ Steps(Append(ms, a)) = 1 .. n
         /\ a.kind = "step" /\ a.number = n + 1 =>
              Ascending(Append(ms, a)) /\ Steps(Append(ms, a)) = 1 .. (n + 1)
<1> DEFINE ns == Append(ms, a)
<1>1. /\ DOMAIN ns = DOMAIN ms \cup {Len(ms) + 1} /\ Len(ms) + 1 \notin DOMAIN ms
      /\ \A i \in DOMAIN ms : ns[i] = ms[i]
      /\ ns[Len(ms) + 1] = a
      /\ \A i \in DOMAIN ms : i < Len(ms) + 1 /\ ~(Len(ms) + 1 < i)
      /\ ~(Len(ms) + 1 < Len(ms) + 1)
  BY AppendFacts
<1> HIDE DEF ns
<1>2. Distinct(ns)
  BY <1>1 DEF Distinct
<1>3. a.kind # "step" => Ascending(ns)
  BY <1>1 DEF Ascending
<1>4. Steps(ns) = Steps(ms) \cup (IF a.kind = "step" THEN {a.number} ELSE {})
  BY <1>1 DEF Steps
<1>5. a.kind # "step" => Steps(ns) = 1 .. n
  BY <1>4
<1>6. ASSUME a.kind = "step", a.number = n + 1
      PROVE  Ascending(ns) /\ Steps(ns) = 1 .. (n + 1)
  <2>1. Steps(ns) = 1 .. (n + 1)
    <3>1. Steps(ns) = (1 .. n) \cup {n + 1}
      BY <1>4, <1>6
    <3>2. (1 .. n) \cup {n + 1} = 1 .. (n + 1)
      OBVIOUS
    <3>3. QED
      BY <3>1, <3>2
  <2>2. \A i \in DOMAIN ms : ms[i].kind = "step" => ms[i].number < a.number
    <3>1. \A i \in DOMAIN ms : ms[i].kind = "step" => ms[i].number \in 1 .. n
      BY DEF Steps
    <3>2. QED
      BY <1>6, <3>1
  <2>3. Ascending(ns)
    BY <1>1, <2>2 DEF Ascending
  <2>4. QED
    BY <2>1, <2>3
<1> QED
  BY <1>2, <1>3, <1>5, <1>6 DEF ns

(* A label changes nothing else.                                           *)
Relabelled(ms, k, b) == [ms EXCEPT ![k].label = b]
LEMMA RelabelFacts ==
  ASSUME NEW ms \in Seq(MarkSet), NEW k \in DOMAIN ms, NEW b \in BOOLEAN
  PROVE  /\ Relabelled(ms, k, b) \in Seq(MarkSet) /\ SameMarks(ms, Relabelled(ms, k, b))
         /\ \A i \in DOMAIN ms : Relabelled(ms, k, b)[i].pos = ms[i].pos
         /\ \A i \in DOMAIN ms : i # k => Relabelled(ms, k, b)[i] = ms[i]
         /\ Relabelled(ms, k, b)[k].label = b
<1> DEFINE ns == Relabelled(ms, k, b)
<1>1. ms[k] \in MarkSet
  OBVIOUS
<1>2. ns = [ms EXCEPT ![k] = [ms[k] EXCEPT !.label = b]]
  BY DEF Relabelled
<1> HIDE DEF ns
<1>3. [ms[k] EXCEPT !.label = b] \in MarkSet
  BY <1>1 DEF MarkSet
<1>4. ns \in Seq(MarkSet) /\ DOMAIN ns = DOMAIN ms
  BY <1>2, <1>3
<1>5. ns[k] = [ms[k] EXCEPT !.label = b] /\ \A i \in DOMAIN ms : i # k => ns[i] = ms[i]
  BY <1>2
<1>6. ns[k].id = ms[k].id /\ ns[k].kind = ms[k].kind /\ ns[k].number = ms[k].number
      /\ ns[k].pos = ms[k].pos /\ ns[k].label = b
  BY <1>1, <1>5 DEF MarkSet
<1> QED
  BY <1>4, <1>5, <1>6 DEF SameMarks, ns

-----------------------------------------------------------------------------
(* What the operations do to the stacks: no drawing comes up that was not  *)
(* there, but the new one.                                                 *)

LEMMA EverywhereFacts ==
  /\ marks \in Everywhere
  /\ \A i \in DOMAIN undoStack : undoStack[i] \in Everywhere
  /\ \A i \in DOMAIN redoStack : redoStack[i] \in Everywhere
  BY DEF Everywhere

LEMMA SnapshotFacts ==
  ASSUME DrawingTypes, Snapshot
  PROVE  /\ undoStack' \in Seq(Seq(MarkSet)) /\ redoStack' = <<>>
         /\ Len(undoStack') <= MaxUndo
         /\ Everywhere' \subseteq Everywhere \cup {marks'}
<1> USE DEF DrawingTypes
<1>1. redoStack' = <<>> /\ MaxUndo \in Nat \ {0}
  BY EditorAssumption DEF Snapshot
<1>2. CASE Len(undoStack) >= MaxUndo
  <2>1. undoStack' = Append(Tail(undoStack), marks) /\ undoStack # <<>>
    BY <1>1, <1>2 DEF Snapshot
  <2>2. Len(undoStack') = Len(undoStack) /\ undoStack' \in Seq(Seq(MarkSet))
    BY <2>1
  <2>3. \A i \in DOMAIN undoStack' :
          undoStack'[i] = IF i = Len(undoStack) THEN marks ELSE undoStack[i + 1]
    BY <2>1, <2>2
  <2>4. \A i \in DOMAIN undoStack' : i = Len(undoStack) \/ i + 1 \in DOMAIN undoStack
    BY <2>2
  <2>5. \A i \in DOMAIN undoStack' : undoStack'[i] \in Everywhere
    BY <2>3, <2>4, EverywhereFacts
  <2>6. Everywhere' \subseteq Everywhere \cup {marks'}
    <3>1. \A i \in DOMAIN undoStack' : undoStack'[i] \in Everywhere \cup {marks'}
      BY <2>5
    <3>2. \A i \in DOMAIN redoStack' : redoStack'[i] \in Everywhere \cup {marks'}
      BY <1>1
    <3>3. marks' \in Everywhere \cup {marks'}
      OBVIOUS
    <3>4. QED
      BY <3>1, <3>2, <3>3 DEF Everywhere
  <2>7. Len(undoStack') <= MaxUndo
    BY <2>2, <1>1
  <2>8. QED
    BY <1>1, <2>2, <2>6, <2>7
<1>3. CASE Len(undoStack) < MaxUndo
  <2>1. undoStack' = Append(undoStack, marks)
    BY <1>1, <1>3 DEF Snapshot
  <2>2. Len(undoStack') = Len(undoStack) + 1 /\ undoStack' \in Seq(Seq(MarkSet))
    BY <2>1
  <2>3. \A i \in DOMAIN undoStack' :
          undoStack'[i] = IF i = Len(undoStack) + 1 THEN marks ELSE undoStack[i]
    BY <2>1, <2>2
  <2>4. \A i \in DOMAIN undoStack' : i = Len(undoStack) + 1 \/ i \in DOMAIN undoStack
    BY <2>2
  <2>5. \A i \in DOMAIN undoStack' : undoStack'[i] \in Everywhere
    BY <2>3, <2>4, EverywhereFacts
  <2>6. Everywhere' \subseteq Everywhere \cup {marks'}
    <3>1. \A i \in DOMAIN undoStack' : undoStack'[i] \in Everywhere \cup {marks'}
      BY <2>5
    <3>2. \A i \in DOMAIN redoStack' : redoStack'[i] \in Everywhere \cup {marks'}
      BY <1>1
    <3>3. marks' \in Everywhere \cup {marks'}
      OBVIOUS
    <3>4. QED
      BY <3>1, <3>2, <3>3 DEF Everywhere
  <2>7. QED
    BY <1>1, <1>3, <2>2, <2>6
<1> QED
  BY <1>1, <1>2, <1>3

(* The drawing on top of a stack, and the rest of the stack.               *)
LEMMA PopFacts ==
  ASSUME NEW S, NEW s \in Seq(S), s # <<>>
  PROVE  /\ Last(s) \in S /\ Front(s) \in Seq(S) /\ Len(Front(s)) = Len(s) - 1
         /\ Len(s) \in DOMAIN s /\ Last(s) = s[Len(s)]
         /\ \A i \in DOMAIN Front(s) : i \in DOMAIN s /\ Front(s)[i] = s[i]
<1>1. Len(s) \in Nat \ {0} /\ DOMAIN s = 1 .. Len(s) /\ \A i \in 1 .. Len(s) : s[i] \in S
  OBVIOUS
<1>2. Front(s) = [i \in 1 .. (Len(s) - 1) |-> s[i]]
  BY <1>1 DEF Front
<1>3. \A i \in 1 .. (Len(s) - 1) : i \in 1 .. Len(s)
  BY <1>1
<1>4. Front(s) \in Seq(S) /\ Len(Front(s)) = Len(s) - 1
  BY <1>1, <1>2, <1>3
<1> QED
  BY <1>1, <1>2, <1>3, <1>4 DEF Last

LEMMA UndoFacts ==
  ASSUME DrawingTypes, undo
  PROVE  DrawingTypes' /\ Everywhere' \subseteq Everywhere
<1> USE DEF DrawingTypes
<1>1. /\ undoStack # <<>> /\ redoStack' = Append(redoStack, marks)
      /\ marks' = Last(undoStack) /\ undoStack' = Front(undoStack)
  BY DEF undo
<1>2. /\ marks' \in Seq(MarkSet) /\ undoStack' \in Seq(Seq(MarkSet))
      /\ Len(undoStack') = Len(undoStack) - 1
      /\ Len(undoStack) \in DOMAIN undoStack /\ marks' = undoStack[Len(undoStack)]
      /\ \A i \in DOMAIN undoStack' : i \in DOMAIN undoStack /\ undoStack'[i] = undoStack[i]
  BY <1>1, PopFacts
<1>3. /\ redoStack' \in Seq(Seq(MarkSet)) /\ Len(redoStack') = Len(redoStack) + 1
      /\ \A i \in DOMAIN redoStack' :
           \/ redoStack'[i] = marks
           \/ i \in DOMAIN redoStack /\ redoStack'[i] = redoStack[i]
  BY <1>1
<1>4. Len(undoStack') + Len(redoStack') <= MaxUndo
  BY <1>2, <1>3, EditorAssumption
<1>5. Everywhere' \subseteq Everywhere
  BY <1>2, <1>3 DEF Everywhere
<1> QED
  BY <1>2, <1>3, <1>4, <1>5

LEMMA RedoFacts ==
  ASSUME DrawingTypes, redo
  PROVE  DrawingTypes' /\ Everywhere' \subseteq Everywhere
<1> USE DEF DrawingTypes
<1>1. /\ redoStack # <<>> /\ undoStack' = Append(undoStack, marks)
      /\ marks' = Last(redoStack) /\ redoStack' = Front(redoStack)
  BY DEF redo
<1>2. /\ marks' \in Seq(MarkSet) /\ redoStack' \in Seq(Seq(MarkSet))
      /\ Len(redoStack') = Len(redoStack) - 1
      /\ Len(redoStack) \in DOMAIN redoStack /\ marks' = redoStack[Len(redoStack)]
      /\ \A i \in DOMAIN redoStack' : i \in DOMAIN redoStack /\ redoStack'[i] = redoStack[i]
  BY <1>1, PopFacts
<1>3. /\ undoStack' \in Seq(Seq(MarkSet)) /\ Len(undoStack') = Len(undoStack) + 1
      /\ \A i \in DOMAIN undoStack' :
           \/ undoStack'[i] = marks
           \/ i \in DOMAIN undoStack /\ undoStack'[i] = undoStack[i]
  BY <1>1
<1>4. Len(undoStack') + Len(redoStack') <= MaxUndo
  BY <1>2, <1>3, EditorAssumption
<1>5. Everywhere' \subseteq Everywhere
  BY <1>2, <1>3 DEF Everywhere
<1> QED
  BY <1>2, <1>3, <1>4, <1>5

(* The next number goes on counting the steps that are there.              *)
LEMMA NextStepFacts ==
  ASSUME recalcNextStep, NEW n \in Nat, Steps(marks') = 1 .. n
  PROVE  nextStep' = n + 1
<1>1. Steps(marks') \cup {0} = 0 .. n
  OBVIOUS
<1>2. n \in 0 .. n /\ \A m \in 0 .. n : m <= n
  OBVIOUS
<1>3. \A x \in 0 .. n : (\A m \in 0 .. n : m <= x) => x = n
  OBVIOUS
<1> DEFINE top == CHOOSE x \in 0 .. n : \A m \in 0 .. n : m <= x
<1>4. top = n
  BY <1>2, <1>3
<1>5. nextStep' = 1 + top
  BY <1>1 DEF recalcNextStep
<1> HIDE DEF top
<1> QED
  BY <1>4, <1>5

(* A drawing stays as it was as long as the region's left edge does.       *)
LEMMA WellStays ==
  ASSUME NEW ms, Well(ms), placed \in Seq(Int), left' = left,
         \/ placed' = placed
         \/ \E x \in Int : placed' = Append(placed, x),
         active' \in {active, NoMark} \/ active'.id = Len(placed) + 1,
         \A i \in DOMAIN ms : ms[i].id # 0
  PROVE  Well(ms)'
<1>1. \A k \in DOMAIN placed : k \in DOMAIN placed' /\ placed'[k] = placed[k]
  OBVIOUS
<1>2. Len(placed) + 1 \notin DOMAIN placed
  OBVIOUS
<1>3. \A i \in DOMAIN ms : ms[i].id # active'.id
  BY <1>2 DEF Well, OnPlace, NoMark
<1>4. \A i \in DOMAIN ms : OnPlace(ms[i])'
  BY <1>1 DEF Well, OnPlace
<1> QED
  BY <1>3, <1>4 DEF Well

(* The drawings that were there before an edit.                            *)
LEMMA OldDrawings ==
  ASSUME EditorTypes, Drawings, left' = left,
         \/ placed' = placed
         \/ \E x \in Int : placed' = Append(placed, x),
         active' \in {active, NoMark} \/ active'.id = Len(placed) + 1
  PROVE  \A ms \in Everywhere : Well(ms)'
<1> SUFFICES ASSUME NEW ms \in Everywhere PROVE Well(ms)'
  OBVIOUS
<1>1. ms \in Seq(MarkSet)
  BY DEF Everywhere, EditorTypes, DrawingTypes
<1>2. \A i \in DOMAIN ms : ms[i].id # 0
  <2>1. \A i \in DOMAIN ms : ms[i] \in MarkSet
    BY <1>1
  <2>2. QED
    BY <2>1 DEF MarkSet
<1>3. Well(ms) /\ placed \in Seq(Int)
  BY DEF Drawings, EditorTypes
<1> QED
  BY <1>2, <1>3, WellStays

(* A new mark is put in place, or the one being drawn is finished.         *)
LEMMA CommitKeeps ==
  ASSUME EditorTypes, Drawings, NEW a \in MarkSet, commitAnnotation(a), left' = left,
         \/ a.id = NewId /\ placed' = Append(placed, left + a.pos)
         \/ a = active /\ placed' = placed,
         a.kind = "step" => a.number = nextStep,
         nextStep' = IF a.kind = "step" THEN nextStep + 1 ELSE nextStep
  PROVE  DrawingTypes' /\ Drawings' /\ nextStep' \in Nat \ {0} /\ placed' \in Seq(Int)
<1>1. /\ marks \in Seq(MarkSet) /\ placed \in Seq(Int) /\ left \in Int /\ nextStep \in Nat \ {0}
      /\ DrawingTypes /\ a.pos \in Int /\ a.id # 0
  BY DEF EditorTypes, DrawingTypes, MarkSet
<1>2. Snapshot /\ marks' = Append(marks, a) /\ active' = NoMark
  BY DEF commitAnnotation
<1>3. Well(marks)
  BY EverywhereFacts DEF Drawings
<1>4. placed' \in Seq(Int)
  <2>1. left + a.pos \in Int
    BY <1>1
  <2>2. CASE placed' = Append(placed, left + a.pos)
    BY <1>1, <2>1, <2>2
  <2>3. QED
    BY <1>1, <2>2
<1>5. /\ marks' \in Seq(MarkSet)
      /\ DOMAIN marks' = DOMAIN marks \cup {Len(marks) + 1}
      /\ \A i \in DOMAIN marks : marks'[i] = marks[i]
      /\ marks'[Len(marks) + 1] = a
  BY <1>1, <1>2, AppendFacts
<1>6. DrawingTypes' /\ Everywhere' \subseteq Everywhere \cup {marks'}
  <2>1. /\ undoStack' \in Seq(Seq(MarkSet)) /\ redoStack' = <<>> /\ Len(undoStack') <= MaxUndo
        /\ Everywhere' \subseteq Everywhere \cup {marks'}
    BY <1>1, <1>2, SnapshotFacts
  <2>2. redoStack' \in Seq(Seq(MarkSet)) /\ Len(undoStack') + Len(redoStack') = Len(undoStack')
    BY <2>1
  <2>3. QED
    BY <1>5, <2>1, <2>2 DEF DrawingTypes
<1>7. Len(placed) + 1 \notin DOMAIN placed
  BY <1>1
<1>8. \A i \in DOMAIN marks : marks[i].id # a.id
  BY <1>3, <1>7 DEF Well, OnPlace, NewId
<1>9. OnPlace(a)'
  <2>1. CASE a.id = NewId /\ placed' = Append(placed, left + a.pos)
    <3>1. Len(placed) + 1 \in DOMAIN placed' /\ placed'[Len(placed) + 1] = left + a.pos
      BY <1>1, <2>1
    <3>2. QED
      BY <2>1, <3>1 DEF OnPlace, NewId
  <2>2. CASE a = active /\ placed' = placed
    BY <1>1, <2>2 DEF Drawings, OnPlace, NoMark
  <2> QED
    BY <2>1, <2>2
<1>10. \A ms \in Everywhere : Well(ms)'
  <2>1. left + a.pos \in Int
    BY <1>1
  <2>2. QED
    BY <1>2, <2>1, OldDrawings
<1>11. \A i \in DOMAIN marks' : OnPlace(marks[i])' /\ marks'[i].id # active'.id
  <2>1. \A ms \in Everywhere : \A i \in DOMAIN ms :
          /\ ms[i].id \in DOMAIN placed' /\ left' + ms[i].pos = placed'[ms[i].id]
          /\ ms[i].id # active'.id
    BY <1>10 DEF Well, OnPlace
  <2>2. \A i \in DOMAIN marks :
          /\ marks'[i].id \in DOMAIN placed' /\ left' + marks'[i].pos = placed'[marks'[i].id]
          /\ marks'[i].id # active'.id
    BY <1>5, <2>1, EverywhereFacts
  <2>3. a.id \in DOMAIN placed' /\ left' + a.pos = placed'[a.id] /\ a.id # active'.id
    BY <1>1, <1>2, <1>9 DEF NoMark, OnPlace
  <2>4. \A i \in DOMAIN marks' :
          /\ marks'[i].id \in DOMAIN placed' /\ left' + marks'[i].pos = placed'[marks'[i].id]
          /\ marks'[i].id # active'.id
    BY <1>5, <2>2, <2>3
  <2>5. QED
    BY <2>4 DEF OnPlace
<1>12. /\ Distinct(marks)' /\ Ascending(marks)' /\ nextStep' - 1 \in Nat
       /\ Steps(marks') = 1 .. nextStep' - 1
  <2>1. nextStep - 1 \in Nat /\ Steps(marks) = 1 .. (nextStep - 1) /\ nextStep = (nextStep - 1) + 1
    BY <1>1 DEF Drawings
  <2>2. Distinct(marks) /\ Ascending(marks)
    BY <1>3 DEF Well
  <2>3. /\ Distinct(Append(marks, a))
        /\ a.kind # "step" =>
             Ascending(Append(marks, a)) /\ Steps(Append(marks, a)) = 1 .. (nextStep - 1)
        /\ a.kind = "step" =>
             Ascending(Append(marks, a)) /\ Steps(Append(marks, a)) = 1 .. ((nextStep - 1) + 1)
    BY <1>1, <1>8, <2>1, <2>2, AppendWell
  <2>4. nextStep' - 1 = IF a.kind = "step" THEN (nextStep - 1) + 1 ELSE nextStep - 1
    BY <1>1
  <2>5. QED
    BY <1>1, <1>2, <2>1, <2>3, <2>4
<1>13. Well(marks)'
  BY <1>11, <1>12 DEF Well
<1>14. \A ms \in Everywhere' : Well(ms)'
  BY <1>6, <1>10, <1>13
<1>15. Drawings'
  BY <1>2, <1>12, <1>14 DEF Drawings
<1> QED
  BY <1>4, <1>6, <1>12, <1>15, <1>1

(* A label is set on a mark that is there.                                 *)
LEMMA UpdateKeeps ==
  ASSUME EditorTypes, Drawings, NEW id, NEW b \in BOOLEAN, updateAnnotation(id, b),
         UNCHANGED <<left, placed, nextStep>>
  PROVE  DrawingTypes' /\ Drawings' /\ active' = active
<1>1. /\ marks \in Seq(MarkSet) /\ DrawingTypes /\ left \in Int /\ active' = active
  BY DEF EditorTypes, DrawingTypes, updateAnnotation
<1>2. CASE ~Exists(id)
  <2>1. UNCHANGED <<marks, undoStack, redoStack, active>>
    BY <1>2 DEF updateAnnotation
  <2>2. QED
    BY <1>1, <2>1 DEF DrawingTypes, Drawings, Everywhere, Well, OnPlace
<1>3. CASE Exists(id)
  <2> DEFINE k == IndexOf(id)
  <2>1. k \in DOMAIN marks
    BY <1>3 DEF Exists, IndexOf
  <2>2. Snapshot /\ marks' = Relabelled(marks, k, b)
    BY <1>3 DEF updateAnnotation, Relabelled
  <2> HIDE DEF k
  <2>3. /\ marks' \in Seq(MarkSet) /\ SameMarks(marks, marks')
        /\ \A i \in DOMAIN marks : marks'[i].pos = marks[i].pos
    BY <1>1, <2>1, <2>2, RelabelFacts
  <2>4. DrawingTypes' /\ Everywhere' \subseteq Everywhere \cup {marks'}
    <3>1. /\ undoStack' \in Seq(Seq(MarkSet)) /\ redoStack' = <<>> /\ Len(undoStack') <= MaxUndo
          /\ Everywhere' \subseteq Everywhere \cup {marks'}
      BY <1>1, <2>2, SnapshotFacts
    <3>2. redoStack' \in Seq(Seq(MarkSet)) /\ Len(undoStack') + Len(redoStack') = Len(undoStack')
      BY <3>1
    <3>3. QED
      BY <2>3, <3>1, <3>2 DEF DrawingTypes
  <2>5. \A ms \in Everywhere : Well(ms)'
    BY <1>1, OldDrawings
  <2>6. Steps(marks') = Steps(marks) /\ Distinct(marks') /\ Ascending(marks')
    BY <2>3, SameMarksFacts, EverywhereFacts DEF Drawings, Well
  <2>7. Well(marks)
    BY EverywhereFacts DEF Drawings
  <2>8. Well(marks)'
    BY <1>1, <2>3, <2>6, <2>7 DEF Well, OnPlace, SameMarks
  <2>9. \A ms \in Everywhere' : Well(ms)'
    BY <2>4, <2>5, <2>8
  <2>10. Drawings'
    BY <1>1, <2>6, <2>9 DEF Drawings, OnPlace
  <2>11. QED
    BY <1>1, <2>4, <2>10
<1> QED
  BY <1>2, <1>3

(* Closing the open field commits what it holds.                           *)
LEMMA TextInputKeeps ==
  ASSUME EditorTypes, Gestures, Drawings, commitTextInput, UNCHANGED <<left, nextStep>>
  PROVE  /\ DrawingTypes' /\ Drawings' /\ placed' \in Seq(Int) /\ editor' = NoEditor
         /\ active' \in {active, NoMark}
<1>1. editor' = NoEditor /\ placed \in Seq(Int) /\ DrawingTypes /\ left \in Int
      /\ nextStep \in Nat
  BY DEF commitTextInput, EditorTypes
<1>2. CASE editor.kind = "text" /\ editor.typed
  <2> DEFINE a == [id |-> NewId, kind |-> "text", pos |-> editor.pos, number |-> 0, label |-> TRUE]
  <2>1. commitAnnotation(a) /\ placed' = Append(placed, editor.at)
    BY <1>2 DEF commitTextInput
  <2>2. editor.pos \in Int /\ left + editor.pos = editor.at
    BY <1>2 DEF EditorTypes, Fields, NoEditor, Gestures
  <2>3. a \in MarkSet
    BY <1>1, <2>2 DEF MarkSet, NewId
  <2>4. a.id = NewId /\ placed' = Append(placed, left + a.pos) /\ a.kind # "step"
    BY <2>1, <2>2
  <2>5. active' = NoMark
    BY <2>1 DEF commitAnnotation
  <2> HIDE DEF a
  <2>6. DrawingTypes' /\ Drawings' /\ placed' \in Seq(Int)
    BY <2>1, <2>3, <2>4, CommitKeeps
  <2>7. QED
    BY <1>1, <2>5, <2>6
<1>3. CASE editor.kind = "step"
  <2>1. updateAnnotation(editor.id, editor.typed) /\ placed' = placed
    BY <1>3 DEF commitTextInput
  <2>2. editor.typed \in BOOLEAN
    BY <1>3 DEF EditorTypes, Fields, NoEditor
  <2>3. DrawingTypes' /\ Drawings' /\ active' = active
    BY <2>1, <2>2, UpdateKeeps
  <2>4. QED
    BY <1>1, <2>1, <2>3
<1>4. CASE ~(editor.kind = "text" /\ editor.typed) /\ editor.kind # "step"
  <2>1. UNCHANGED <<marks, undoStack, redoStack, active, placed>>
    BY <1>4 DEF commitTextInput
  <2>2. QED
    BY <1>1, <2>1 DEF DrawingTypes, Drawings, Everywhere, Well, OnPlace
<1> QED
  BY <1>2, <1>3, <1>4

(* A resize moves every drawing against the left edge.                     *)
LEMMA OffsetKeeps ==
  ASSUME EditorTypes, Drawings, left' \in Int, offsetAll(-(left' - left)),
         UNCHANGED <<placed, nextStep>>
  PROVE  /\ DrawingTypes' /\ Drawings'
         /\ active' \in MarkSet \cup {NoMark} /\ (active' # NoMark => active'.kind = "shape")
         /\ active' # NoMark => active # NoMark
<1>1. left \in Int /\ -(left' - left) \in Int /\ DrawingTypes
  BY DEF EditorTypes
<1>0. PICK d \in Int : d = -(left' - left)
  BY <1>1
<1>2. \A p \in Int : left' + (p + d) = left + p
  <2>1. d = left - left'
    BY <1>0, <1>1
  <2>2. \A x, y, p \in Int : y + (p + (x - y)) = x + p
    OBVIOUS
  <2>3. QED
    BY <1>1, <2>1, <2>2
<1>3. /\ marks' = AllMoved(marks, d) /\ active' = Moved(active, d)
      /\ undoStack' = [i \in DOMAIN undoStack |-> AllMoved(undoStack[i], d)]
      /\ redoStack' = [i \in DOMAIN redoStack |-> AllMoved(redoStack[i], d)]
  BY <1>0 DEF offsetAll
<1>4. /\ \A i \in DOMAIN undoStack : undoStack[i] \in Seq(MarkSet)
      /\ \A i \in DOMAIN redoStack : redoStack[i] \in Seq(MarkSet)
      /\ marks \in Seq(MarkSet)
  BY <1>1 DEF DrawingTypes
<1>5. DrawingTypes'
  <2>1. marks' \in Seq(MarkSet)
    BY <1>1, <1>3, <1>4, AllMovedFacts
  <2>2. /\ \A i \in DOMAIN undoStack : AllMoved(undoStack[i], d) \in Seq(MarkSet)
        /\ \A i \in DOMAIN redoStack : AllMoved(redoStack[i], d) \in Seq(MarkSet)
    BY <1>1, <1>4, AllMovedFacts
  <2>3. /\ DOMAIN undoStack = 1 .. Len(undoStack) /\ Len(undoStack) \in Nat
        /\ DOMAIN redoStack = 1 .. Len(redoStack) /\ Len(redoStack) \in Nat
    BY <1>1 DEF DrawingTypes
  <2>4. /\ undoStack' \in Seq(Seq(MarkSet)) /\ Len(undoStack') = Len(undoStack)
        /\ redoStack' \in Seq(Seq(MarkSet)) /\ Len(redoStack') = Len(redoStack)
    BY <1>3, <2>2, <2>3
  <2>5. QED
    BY <1>1, <2>1, <2>4 DEF DrawingTypes
<1>6. \A ns \in Everywhere' : \E ms \in Everywhere : ns = AllMoved(ms, d)
  BY <1>3 DEF Everywhere
<1>7. \A ms \in Everywhere : ms \in Seq(MarkSet)
  BY <1>4 DEF Everywhere
<1>8. active' \in MarkSet \cup {NoMark} /\ active'.id = active.id
      /\ (active' # NoMark => active # NoMark /\ active'.kind = active.kind
                            /\ active.pos \in Int /\ active'.pos = active.pos + d)
  <2>1. CASE active = NoMark
    BY <1>3, <2>1 DEF Moved
  <2>2. CASE active # NoMark
    <3>1. active \in MarkSet /\ active.pos \in Int
      BY <2>2 DEF EditorTypes, MarkSet
    <3>2. QED
      BY <1>1, <1>3, <2>2, <3>1, MovedFacts
  <2> QED
    BY <2>1, <2>2
<1>9. ASSUME NEW ms \in Everywhere, NEW ns, ns = AllMoved(ms, d) PROVE Well(ns)'
  <2>1. SameMarks(ms, ns) /\ \A i \in DOMAIN ms : ns[i].pos = ms[i].pos + d
    BY <1>7, <1>9, AllMovedFacts
  <2>2. \A i \in DOMAIN ms : ms[i].pos \in Int
    <3>1. \A i \in DOMAIN ms : ms[i] \in MarkSet
      BY <1>7
    <3>2. QED
      BY <3>1 DEF MarkSet
  <2>3. Well(ms)
    BY DEF Drawings
  <2>4. Distinct(ns) /\ Ascending(ns) /\ Steps(ns) = Steps(ms)
    BY <2>1, <2>3, SameMarksFacts DEF Well
  <2>5. \A i \in DOMAIN ns :
          /\ ns[i].id \in DOMAIN placed' /\ left' + ns[i].pos = placed'[ns[i].id]
          /\ ns[i].id # active'.id
    <3> SUFFICES ASSUME NEW i \in DOMAIN ms
                 PROVE  /\ ns[i].id \in DOMAIN placed' /\ left' + ns[i].pos = placed'[ns[i].id]
                        /\ ns[i].id # active'.id
      BY <2>1 DEF SameMarks
    <3>1. ns[i].id = ms[i].id /\ ns[i].pos = ms[i].pos + d /\ ms[i].pos \in Int
      BY <2>1, <2>2 DEF SameMarks
    <3>2. ms[i].id \in DOMAIN placed /\ left + ms[i].pos = placed[ms[i].id] /\ ms[i].id # active.id
      BY <2>3 DEF Well, OnPlace
    <3>3. left' + (ms[i].pos + d) = left + ms[i].pos
      BY <1>2, <3>1
    <3>4. QED
      BY <1>8, <3>1, <3>2, <3>3
  <2>6. /\ \A i \in DOMAIN ns : OnPlace(ns[i])' /\ ns[i].id # active'.id
        /\ \E n \in Nat : Steps(ns) = 1 .. n
    BY <2>3, <2>4, <2>5 DEF OnPlace, Well
  <2>7. QED
    BY <2>4, <2>6 DEF Well
<1>10. \A ns \in Everywhere' : Well(ns)'
  BY <1>6, <1>9
<1>11. Steps(marks') = 1 .. nextStep' - 1
  <2>1. Steps(marks') = Steps(marks)
    BY <1>1, <1>3, <1>4, AllMovedFacts, SameMarksFacts
  <2>2. QED
    BY <2>1 DEF Drawings
<1>12. active' # NoMark => OnPlace(active)'
  BY <1>2, <1>8 DEF Drawings, OnPlace
<1>13. Drawings'
  BY <1>10, <1>11, <1>12 DEF Drawings
<1> QED
  BY <1>5, <1>8, <1>13 DEF EditorTypes

(* Nothing of a drawing changes.                                           *)
LEMMA DrawingsSame ==
  ASSUME EditorTypes, Drawings,
         UNCHANGED <<left, marks, active, undoStack, redoStack, nextStep, placed>>
  PROVE  DrawingTypes' /\ Drawings'
<1>1. DrawingTypes'
  BY DEF EditorTypes, DrawingTypes
<1>2. Everywhere' = Everywhere
  BY DEF Everywhere
<1>3. \A ms \in Everywhere : Well(ms)'
  BY DEF Drawings, Well, OnPlace
<1> QED
  BY <1>1, <1>2, <1>3 DEF Drawings, OnPlace

(* The mark being drawn comes or goes.                                     *)
LEMMA StrokeKeeps ==
  ASSUME EditorTypes, Drawings, UNCHANGED <<left, marks, undoStack, redoStack, nextStep>>,
         \/ active' = NoMark /\ placed' = placed
         \/ active'.id = NewId /\ active'.pos \in Int
            /\ placed' = Append(placed, left + active'.pos)
  PROVE  DrawingTypes' /\ Drawings' /\ placed' \in Seq(Int)
<1>1. DrawingTypes'
  BY DEF EditorTypes, DrawingTypes
<1>2. Everywhere' = Everywhere
  BY DEF Everywhere
<1>3. placed \in Seq(Int) /\ left \in Int
  BY DEF EditorTypes
<1>4. CASE active' = NoMark /\ placed' = placed
  <2>1. \A ms \in Everywhere : Well(ms)'
    BY <1>4, OldDrawings
  <2>2. QED
    BY <1>1, <1>2, <1>3, <1>4, <2>1 DEF Drawings
<1>5. CASE /\ active'.id = NewId /\ active'.pos \in Int
           /\ placed' = Append(placed, left + active'.pos)
  <2>1. left + active'.pos \in Int
    BY <1>3, <1>5
  <2>2. \A ms \in Everywhere : Well(ms)'
    BY <1>5, <2>1, OldDrawings DEF NewId
  <2>3. placed' \in Seq(Int) /\ Len(placed) + 1 \in DOMAIN placed'
        /\ placed'[Len(placed) + 1] = left + active'.pos
    BY <1>3, <1>5, <2>1
  <2>4. OnPlace(active)'
    BY <1>5, <2>3 DEF OnPlace, NewId
  <2>5. QED
    BY <1>1, <1>2, <2>2, <2>3, <2>4 DEF Drawings
<1> QED
  BY <1>4, <1>5

(* Undo and redo bring back a drawing and count its steps.                 *)
LEMMA HistoryKeeps ==
  ASSUME EditorTypes, Drawings, undo \/ redo, UNCHANGED <<left, active, placed>>
  PROVE  DrawingTypes' /\ Drawings' /\ nextStep' \in Nat \ {0}
<1>1. DrawingTypes' /\ Everywhere' \subseteq Everywhere
  BY UndoFacts, RedoFacts DEF EditorTypes
<1>2. \A ms \in Everywhere : Well(ms)'
  BY OldDrawings
<1>3. \A ms \in Everywhere' : Well(ms)'
  BY <1>1, <1>2
<1>4. marks' \in Everywhere'
  BY DEF Everywhere
<1>5. PICK n \in Nat : Steps(marks') = 1 .. n
  <2>1. marks' \in Everywhere
    BY <1>1, <1>4
  <2>2. QED
    BY <2>1 DEF Drawings, Well
<1>6. nextStep' = n + 1
  BY <1>5, NextStepFacts DEF undo, redo
<1>7. nextStep' \in Nat \ {0} /\ nextStep' - 1 = n
  BY <1>6
<1> QED
  BY <1>1, <1>3, <1>5, <1>7 DEF Drawings, OnPlace

(* However far the pointer is dragged, the edges keep their distance.      *)
LEMMA EdgesFacts ==
  ASSUME RegionInv, grip \in Grips, grip # NoGrip, NEW mx \in Int, 0 <= mx, mx < Width
  PROVE  /\ Edges(mx)[1] \in Int /\ Edges(mx)[2] \in Int
         /\ 0 <= Edges(mx)[1] /\ Edges(mx)[2] < Width
         /\ Edges(mx)[2] - Edges(mx)[1] >= MinSpan
<1>1. /\ Width \in Nat /\ MinSpan \in Nat \ {0}
      /\ grip.edge \in {"left", "right", "other"} /\ grip.left \in Int /\ grip.right \in Int
      /\ 0 <= grip.left /\ grip.right < Width /\ grip.right - grip.left >= MinSpan
  BY EditorAssumption DEF RegionInv, Grips
<1>2. CASE grip.edge = "left"
  BY <1>1, <1>2 DEF Edges, Clamped, AtLeast, AtMost
<1>3. CASE grip.edge = "right"
  BY <1>1, <1>3 DEF Edges, Clamped, AtLeast, AtMost
<1>4. CASE grip.edge = "other"
  BY <1>1, <1>4 DEF Edges, Clamped, AtLeast, AtMost
<1> QED
  BY <1>1, <1>2, <1>3, <1>4

LEMMA ClampedFacts ==
  ASSUME NEW x \in Int
  PROVE  Clamped(x) \in Int /\ 0 <= Clamped(x) /\ Clamped(x) < Width
  BY EditorAssumption DEF Clamped, AtLeast, AtMost

-----------------------------------------------------------------------------
(* The invariant.                                                          *)

LEMMA EditorInitially == EditorInit => EditorInv
<1> SUFFICES ASSUME EditorInit PROVE EditorInv
  OBVIOUS
<1>1. PICK r \in Regions : left = r[1] /\ right = r[2]
  BY DEF EditorInit
<1>2. left \in Int /\ right \in Int /\ RegionSound
  BY <1>1, EditorAssumption DEF Regions, Screen, RegionSound
<1>3. /\ marks = <<>> /\ active = NoMark /\ undoStack = <<>> /\ redoStack = <<>>
      /\ nextStep = 1 /\ editor = NoEditor /\ grip = NoGrip /\ placed = <<>>
  BY DEF EditorInit
<1>4. DrawingTypes
  BY <1>3, EditorAssumption DEF DrawingTypes
<1>5. EditorTypes /\ Gestures /\ RegionInv
  BY <1>2, <1>3, <1>4 DEF EditorTypes, Gestures, RegionInv, Grips, Fields, NoEditor
<1>6. Drawings
  <2>1. Everywhere = {<<>>}
    BY <1>3 DEF Everywhere
  <2>2. Steps(<<>>) = 1 .. 0
    BY DEF Steps
  <2>3. Well(<<>>)
    BY <2>2 DEF Well, Distinct, Ascending
  <2>4. QED
    BY <1>3, <2>1, <2>2, <2>3 DEF Drawings
<1> QED
  BY <1>5, <1>6 DEF EditorInv

(* A field holds what it was opened with, and the press that opens it does *)
(* not end a gesture.                                                      *)
LEMMA FieldsFacts ==
  ASSUME EditorTypes
  PROVE  /\ NoEditor \in Fields /\ NoEditor.kind = "none"
         /\ \A p, q \in Int : [kind |-> "text", pos |-> p, at |-> q, typed |-> FALSE] \in Fields
         /\ \A i \in DOMAIN marks :
              [kind |-> "step", id |-> marks[i].id, typed |-> marks[i].label] \in Fields
<1>1. \A i \in DOMAIN marks : marks[i] \in MarkSet
  BY DEF EditorTypes, DrawingTypes
<1>2. \A i \in DOMAIN marks : marks[i].id \in Nat /\ marks[i].label \in BOOLEAN
  BY <1>1 DEF MarkSet
<1> QED
  BY <1>2 DEF Fields, NoEditor

LEMMA MouseKeeps ==
  ASSUME EditorInv, \/ PressBesideField \/ EndStroke \/ TypeInField \/ cancelTextInput
                    \/ \E p \in Spots : PressText(p) \/ PressStep(p) \/ PressShape(p)
  PROVE  EditorInv'
<1> USE DEF EditorInv, region, end, state
<1>0. left \in Int /\ right \in Int /\ nextStep \in Nat \ {0} /\ placed \in Seq(Int)
  BY DEF EditorTypes
<1>1. CASE PressBesideField
  <2>1. commitTextInput /\ UNCHANGED <<left, right, grip, nextStep, dragging>>
    BY <1>1 DEF PressBesideField
  <2>2. /\ DrawingTypes' /\ Drawings' /\ placed' \in Seq(Int) /\ editor' = NoEditor
        /\ active' \in {active, NoMark}
    BY <2>1, TextInputKeeps
  <2>3. EditorTypes'
    BY <2>1, <2>2 DEF EditorTypes, Fields
  <2>4. Gestures' /\ RegionInv'
    BY <2>1, <2>2 DEF Gestures, RegionInv, RegionSound, NoEditor
  <2>5. QED
    BY <2>2, <2>3, <2>4
<1>2. CASE EndStroke
  <2>1. UNCHANGED <<left, right, grip, nextStep, editor, placed>> /\ active' = NoMark
    BY <1>2 DEF EndStroke, commitAnnotation
  <2>2. DrawingTypes' /\ Drawings'
    <3>1. CASE active # NoMark /\ commitAnnotation(active)
      <4>1. active \in MarkSet /\ active.kind # "step"
        BY <3>1 DEF EditorTypes
      <4>2. QED
        BY <2>1, <3>1, <4>1, CommitKeeps
    <3>2. CASE active' = NoMark /\ UNCHANGED <<marks, undoStack, redoStack>>
      BY <2>1, <3>2, StrokeKeeps
    <3>3. QED
      BY <1>2, <3>1, <3>2 DEF EndStroke
  <2>3. EditorTypes'
    BY <2>1, <2>2 DEF EditorTypes
  <2>4. Gestures' /\ RegionInv'
    BY <2>1 DEF Gestures, RegionInv, RegionSound
  <2>5. QED
    BY <2>2, <2>3, <2>4
<1>3. CASE TypeInField
  <2>1. /\ UNCHANGED <<left, right, grip, marks, active, undoStack, redoStack, nextStep, dragging, placed>>
        /\ editor # NoEditor /\ editor' = [editor EXCEPT !.typed = ~@]
    BY <1>3 DEF TypeInField
  <2>2. DrawingTypes' /\ Drawings'
    BY <2>1, DrawingsSame
  <2>3. CASE editor \in [kind : {"text"}, pos : Int, at : Int, typed : BOOLEAN]
    <3>1. editor' \in Fields /\ editor'.kind = "text" /\ editor'.pos = editor.pos /\ editor'.at = editor.at
          /\ editor.kind = "text"
      BY <2>1, <2>3 DEF Fields
    <3>2. EditorTypes'
      BY <2>1, <2>2, <3>1 DEF EditorTypes
    <3>3. Gestures' /\ RegionInv'
      BY <2>1, <3>1 DEF Gestures, RegionInv, RegionSound
    <3>4. QED
      BY <2>2, <3>2, <3>3
  <2>4. CASE editor \in [kind : {"step"}, id : Nat, typed : BOOLEAN]
    <3>1. editor' \in Fields /\ editor'.kind = "step"
      BY <2>1, <2>4 DEF Fields
    <3>2. EditorTypes'
      BY <2>1, <2>2, <3>1 DEF EditorTypes
    <3>3. Gestures' /\ RegionInv'
      BY <2>1, <3>1 DEF Gestures, RegionInv, RegionSound
    <3>4. QED
      BY <2>2, <3>2, <3>3
  <2>5. QED
    BY <2>1, <2>3, <2>4 DEF EditorTypes, Fields
<1>4. CASE cancelTextInput
  <2>1. /\ UNCHANGED <<left, right, grip, marks, undoStack, redoStack, nextStep, dragging, placed>>
        /\ editor' = NoEditor /\ active' = NoMark
    BY <1>4 DEF cancelTextInput
  <2>2. DrawingTypes' /\ Drawings'
    BY <2>1, StrokeKeeps
  <2>3. EditorTypes'
    BY <2>1, <2>2, FieldsFacts DEF EditorTypes
  <2>4. Gestures' /\ RegionInv'
    BY <2>1 DEF Gestures, RegionInv, RegionSound, NoEditor
  <2>5. QED
    BY <2>2, <2>3, <2>4
<1>5. ASSUME NEW p \in Spots, PressText(p) PROVE EditorInv'
  <2>1. /\ UNCHANGED <<left, right, grip, marks, active, undoStack, redoStack, nextStep, dragging, placed>>
        /\ editor' = [kind |-> "text", pos |-> p, at |-> left + p, typed |-> FALSE]
        /\ grip = NoGrip /\ (dragging => active = NoMark)
    BY <1>5 DEF PressText, Closed, Ready
  <2>2. p \in Int /\ left + p \in Int
    BY <1>0 DEF Spots
  <2>3. DrawingTypes' /\ Drawings'
    BY <2>1, DrawingsSame
  <2>4. editor' \in Fields
    BY <2>1, <2>2, FieldsFacts
  <2>5. EditorTypes'
    BY <2>1, <2>3, <2>4 DEF EditorTypes
  <2>6. Gestures' /\ RegionInv'
    BY <2>1 DEF Gestures, RegionInv, RegionSound
  <2>7. QED
    BY <2>3, <2>5, <2>6
<1>6. ASSUME NEW p \in Spots, PressStep(p) PROVE EditorInv'
  <2>1. /\ UNCHANGED <<left, right, grip, dragging>>
        /\ grip = NoGrip /\ editor = NoEditor /\ (dragging => active = NoMark)
    BY <1>6 DEF PressStep, Closed, Ready
  <2>2. ASSUME NEW i \in DOMAIN marks,
               editor' = [kind |-> "step", id |-> marks[i].id, typed |-> marks[i].label],
               UNCHANGED <<marks, active, undoStack, redoStack, nextStep, placed>>
        PROVE  EditorInv'
    <3>1. DrawingTypes' /\ Drawings'
      BY <2>1, <2>2, DrawingsSame
    <3>2. editor' \in Fields /\ editor'.kind = "step"
      BY <2>2, FieldsFacts
    <3>3. EditorTypes'
      BY <2>1, <2>2, <3>1, <3>2 DEF EditorTypes
    <3>4. Gestures' /\ RegionInv'
      BY <2>1, <2>2, <3>2 DEF Gestures, RegionInv, RegionSound
    <3>5. QED
      BY <3>1, <3>3, <3>4
  <2>3. ASSUME commitAnnotation([id |-> NewId, kind |-> "step", pos |-> p,
                                 number |-> nextStep, label |-> FALSE]),
               nextStep' = nextStep + 1, placed' = Append(placed, left + p), editor' = editor
        PROVE  EditorInv'
    <3> DEFINE a == [id |-> NewId, kind |-> "step", pos |-> p, number |-> nextStep, label |-> FALSE]
    <3>1. a \in MarkSet
      BY <1>0 DEF MarkSet, NewId, Spots
    <3>2. /\ commitAnnotation(a) /\ a.id = NewId /\ placed' = Append(placed, left + a.pos)
          /\ a.kind = "step" /\ a.number = nextStep
      BY <2>3
    <3>3. active' = NoMark
      BY <3>2 DEF commitAnnotation
    <3> HIDE DEF a
    <3>4. DrawingTypes' /\ Drawings' /\ nextStep' \in Nat \ {0} /\ placed' \in Seq(Int)
      BY <2>1, <2>3, <3>1, <3>2, CommitKeeps
    <3>5. EditorTypes'
      BY <2>1, <2>3, <3>3, <3>4 DEF EditorTypes
    <3>6. Gestures' /\ RegionInv'
      BY <2>1, <2>3, <3>3 DEF Gestures, RegionInv, RegionSound, NoEditor
    <3>7. QED
      BY <3>4, <3>5, <3>6
  <2>4. QED
    BY <1>6, <2>2, <2>3 DEF PressStep
<1>7. ASSUME NEW p \in Spots, PressShape(p) PROVE EditorInv'
  <2>1. /\ UNCHANGED <<left, right, grip, marks, undoStack, redoStack, nextStep, editor>>
        /\ dragging' = TRUE /\ editor = NoEditor
        /\ active' = [id |-> NewId, kind |-> "shape", pos |-> p, number |-> 0, label |-> FALSE]
        /\ placed' = Append(placed, left + p)
    BY <1>7 DEF PressShape, Closed
  <2>2. active' \in MarkSet /\ active'.kind = "shape" /\ active'.id = NewId /\ active'.pos = p
        /\ p \in Int
    BY <1>0, <2>1 DEF MarkSet, NewId, Spots
  <2>3. DrawingTypes' /\ Drawings' /\ placed' \in Seq(Int)
    BY <2>1, <2>2, StrokeKeeps
  <2>4. EditorTypes'
    BY <2>1, <2>2, <2>3 DEF EditorTypes
  <2>5. Gestures' /\ RegionInv'
    BY <2>1 DEF Gestures, RegionInv, RegionSound, NoEditor
  <2>6. QED
    BY <2>3, <2>4, <2>5
<1> QED
  BY <1>1, <1>2, <1>3, <1>4, <1>5, <1>6, <1>7

LEMMA EditorInductive == EditorInv /\ [EditorNext]_editorVars => EditorInv'
<1> SUFFICES ASSUME EditorInv, [EditorNext]_editorVars PROVE EditorInv'
  OBVIOUS
<1> USE DEF EditorInv, region, end, state
<1>1. CASE UndoOrRedo
  <2>1. (undo \/ redo) /\ UNCHANGED <<left, right, grip, active, dragging, editor, placed>>
    BY <1>1 DEF UndoOrRedo
  <2>2. DrawingTypes' /\ Drawings' /\ nextStep' \in Nat \ {0}
    BY <2>1, HistoryKeeps
  <2>3. EditorTypes'
    BY <2>1, <2>2 DEF EditorTypes
  <2>4. Gestures' /\ RegionInv'
    BY <2>1 DEF Gestures, RegionInv, RegionSound
  <2>5. QED
    BY <2>2, <2>3, <2>4
<1>2. ASSUME NEW e \in {"left", "right", "other"}, beginResize(e) PROVE EditorInv'
  <2>1. /\ commitTextInput /\ UNCHANGED <<left, right, nextStep, dragging>>
        /\ grip' = [edge |-> e, left |-> left, right |-> right] /\ (dragging => active = NoMark)
    BY <1>2 DEF beginResize
  <2>2. /\ DrawingTypes' /\ Drawings' /\ placed' \in Seq(Int) /\ editor' = NoEditor
        /\ active' \in {active, NoMark}
    BY <2>1, TextInputKeeps
  <2>3. grip' \in Grips /\ grip'.left = left /\ grip'.right = right
    BY <2>1 DEF Grips, EditorTypes
  <2>4. EditorTypes'
    BY <2>1, <2>2, <2>3 DEF EditorTypes, Fields
  <2>5. Gestures' /\ RegionInv'
    BY <2>1, <2>2, <2>3 DEF Gestures, RegionInv, RegionSound, NoEditor
  <2>6. QED
    BY <2>2, <2>4, <2>5
<1>3. ASSUME NEW x \in (-1) .. Width, applyResize(x) PROVE EditorInv'
  <2> DEFINE mx == Clamped(x)
  <2>1. mx \in Int /\ 0 <= mx /\ mx < Width
    BY ClampedFacts, EditorAssumption
  <2> HIDE DEF mx
  <2>2. /\ grip # NoGrip /\ left' = Edges(mx)[1] /\ right' = Edges(mx)[2]
        /\ offsetAll(-(Edges(mx)[1] - left)) /\ UNCHANGED <<grip, nextStep, dragging, editor, placed>>
    BY <1>3 DEF applyResize, mx
  <2>3. left' \in Int /\ right' \in Int /\ RegionSound'
    BY <2>1, <2>2, EdgesFacts DEF EditorTypes, RegionSound
  <2>4. /\ DrawingTypes' /\ Drawings' /\ active' \in MarkSet \cup {NoMark}
        /\ (active' # NoMark => active'.kind = "shape") /\ (active' # NoMark => active # NoMark)
    BY <2>2, <2>3, OffsetKeeps
  <2>5. EditorTypes'
    BY <2>2, <2>3, <2>4 DEF EditorTypes
  <2>6. Gestures' /\ RegionInv'
    BY <2>2, <2>3, <2>4 DEF Gestures, RegionInv, NoEditor
  <2>7. QED
    BY <2>4, <2>5, <2>6
<1>4. CASE endResize
  <2>1. /\ UNCHANGED <<left, right, marks, active, undoStack, redoStack, nextStep, dragging, editor, placed>>
        /\ grip' = NoGrip
    BY <1>4 DEF endResize
  <2>2. DrawingTypes' /\ Drawings'
    BY <2>1, DrawingsSame
  <2>3. EditorTypes'
    BY <2>1, <2>2 DEF EditorTypes, Grips
  <2>4. Gestures' /\ RegionInv'
    BY <2>1 DEF Gestures, RegionInv, RegionSound
  <2>5. QED
    BY <2>2, <2>3, <2>4
<1>5. CASE Save
  <2>1. commitTextInput /\ UNCHANGED <<left, right, grip, nextStep, dragging>>
    BY <1>5 DEF Save
  <2>2. /\ DrawingTypes' /\ Drawings' /\ placed' \in Seq(Int) /\ editor' = NoEditor
        /\ active' \in {active, NoMark}
    BY <2>1, TextInputKeeps
  <2>3. EditorTypes'
    BY <2>1, <2>2 DEF EditorTypes, Fields
  <2>4. Gestures' /\ RegionInv'
    BY <2>1, <2>2 DEF Gestures, RegionInv, RegionSound, NoEditor
  <2>5. QED
    BY <2>2, <2>3, <2>4
<1>6. CASE NextSession
  <2>1. PICK r \in Regions : left' = r[1] /\ right' = r[2]
    BY <1>6 DEF NextSession
  <2>2. left' \in Int /\ right' \in Int /\ RegionSound'
    BY <2>1, EditorAssumption DEF Regions, Screen, RegionSound
  <2>3. /\ marks' = <<>> /\ active' = NoMark /\ undoStack' = <<>> /\ redoStack' = <<>>
        /\ nextStep' = 1 /\ editor' = NoEditor /\ grip' = NoGrip /\ placed' = <<>>
    BY <1>6 DEF NextSession
  <2>4. DrawingTypes'
    BY <2>3, EditorAssumption DEF DrawingTypes
  <2>5. EditorTypes' /\ Gestures' /\ RegionInv'
    BY <2>2, <2>3, <2>4 DEF EditorTypes, Gestures, RegionInv, Grips, Fields, NoEditor
  <2>6. Drawings'
    <3>1. Everywhere' = {<<>>}
      BY <2>3 DEF Everywhere
    <3>2. Steps(<<>>) = 1 .. 0
      BY DEF Steps
    <3>3. Well(<<>>)'
      BY <3>2 DEF Well, Distinct, Ascending
    <3>4. QED
      BY <2>3, <3>1, <3>2, <3>3 DEF Drawings
  <2>7. QED
    BY <2>5, <2>6
<1>7. CASE UNCHANGED editorVars
  <2>1. UNCHANGED <<left, right, grip, marks, active, undoStack, redoStack, nextStep, dragging, editor, placed>>
    BY <1>7 DEF editorVars
  <2>2. DrawingTypes' /\ Drawings'
    BY <2>1, DrawingsSame
  <2>3. EditorTypes' /\ Gestures' /\ RegionInv'
    BY <2>1, <2>2 DEF EditorTypes, Gestures, RegionInv, RegionSound
  <2>4. QED
    BY <2>2, <2>3
<1> QED
  BY <1>1, <1>2, <1>3, <1>4, <1>5, <1>6, <1>7, MouseKeeps DEF EditorNext

LEMMA EditorInvariance == EditorSpec => []EditorInv
BY EditorInitially, EditorInductive, PTL DEF EditorSpec

(* However an edge is dragged, the region stays a real one and every mark, *)
(* drawn, half drawn, undone or waiting to be redone, stays on its pixels, *)
(* for any number of marks and resizes.                                    *)
THEOREM ResizesAreSound == EditorSpec => []ResizeIsSound
<1>1. EditorInv => ResizeIsSound
  BY DEF EditorInv, RegionInv, Drawings, Well, OnPlace, ResizeIsSound, MarksStayPut
<1> QED
  BY <1>1, EditorInvariance, PTL

(* The steps of a drawing count 1, 2, 3, ... and the next one goes on.     *)
THEOREM StepsAlwaysCount == EditorSpec => []StepsCount
<1>1. EditorInv => StepsCount
  BY EverywhereFacts DEF EditorInv, Drawings, Well, Ascending, StepsCount
<1> QED
  BY <1>1, EditorInvariance, PTL

-----------------------------------------------------------------------------
(* What a saved image shows.                                               *)

LEMMA ExistsFacts ==
  ASSUME NEW id, Exists(id)
  PROVE  IndexOf(id) \in DOMAIN marks /\ marks[IndexOf(id)].id = id
  BY DEF Exists, IndexOf

LEMMA SavesTheSeen ==
  ASSUME EditorInv, Save
  PROVE  saved' = Seen
<1>1. /\ commitTextInput /\ saved' = Drawn(marks', active')
  BY DEF Save
<1>2. /\ marks \in Seq(MarkSet) /\ editor \in Fields /\ left \in Int /\ DrawingTypes
  BY DEF EditorInv, EditorTypes, DrawingTypes
<1>3. CASE editor.kind # "step" /\ ~(editor.kind = "text" /\ editor.typed)
  <2>1. UNCHANGED <<marks, active>>
    BY <1>1, <1>3 DEF commitTextInput
  <2>2. QED
    BY <1>1, <1>3, <2>1 DEF Seen
<1>4. CASE editor.kind = "text" /\ editor.typed
  <2> DEFINE a == [id |-> NewId, kind |-> "text", pos |-> editor.pos, number |-> 0, label |-> TRUE]
  <2>1. marks' = Append(marks, a) /\ active' = NoMark
    BY <1>1, <1>4 DEF commitTextInput, commitAnnotation
  <2>2. active = NoMark /\ left + editor.pos = editor.at
    BY <1>4 DEF EditorInv, Gestures, NoEditor
  <2>3. Look(a) = [id |-> NewId, at |-> editor.at, label |-> TRUE]
    BY <2>2 DEF Look
  <2> HIDE DEF a
  <2>4. /\ DOMAIN marks' = DOMAIN marks \cup {Len(marks) + 1} /\ marks'[Len(marks) + 1] = a
        /\ \A i \in DOMAIN marks : marks'[i] = marks[i]
    BY <1>2, <2>1
  <2>5. Drawn(marks', NoMark) = Drawn(marks, NoMark) \cup {Look(a)}
    <3>1. {Look(marks'[i]) : i \in DOMAIN marks'} = {Look(marks[i]) : i \in DOMAIN marks} \cup {Look(a)}
      BY <2>4
    <3>2. QED
      BY <3>1 DEF Drawn
  <2>6. Seen = Drawn(marks, NoMark) \cup {Look(a)}
    BY <1>4, <2>2, <2>3 DEF Seen
  <2>7. QED
    BY <1>1, <2>1, <2>5, <2>6
<1>5. CASE editor.kind = "step"
  <2>1. active = NoMark /\ updateAnnotation(editor.id, editor.typed)
    BY <1>1, <1>5 DEF EditorInv, Gestures, NoEditor, commitTextInput
  <2>2. active' = NoMark
    BY <2>1 DEF updateAnnotation
  <2>3. Drawn(marks, NoMark) = {Look(marks[i]) : i \in DOMAIN marks}
        /\ Drawn(marks', NoMark) = {Look(marks'[i]) : i \in DOMAIN marks'}
    BY DEF Drawn
  <2>4. \A i \in DOMAIN marks : Look(marks[i]).id = marks[i].id
    BY DEF Look
  <2>5. CASE ~Exists(editor.id)
    <3>1. marks' = marks
      BY <2>1, <2>5 DEF updateAnnotation
    <3>2. \A i \in DOMAIN marks : marks[i].id # editor.id
      BY <2>5 DEF Exists
    <3>3. Seen = {m \in Drawn(marks, NoMark) : m.id # editor.id}
      BY <1>5, <2>1, <2>5 DEF Seen
    <3>4. {m \in Drawn(marks, NoMark) : m.id # editor.id} = Drawn(marks, NoMark)
      BY <2>3, <2>4, <3>2
    <3>5. QED
      BY <1>1, <2>2, <3>1, <3>3, <3>4
  <2>6. CASE Exists(editor.id)
    <3> DEFINE k == IndexOf(editor.id)
    <3>1. k \in DOMAIN marks /\ marks[k].id = editor.id
      BY <2>6, ExistsFacts
    <3>2. marks' = Relabelled(marks, k, editor.typed)
      BY <2>1, <2>6 DEF updateAnnotation, Relabelled
    <3>3. Seen = {m \in Drawn(marks, NoMark) : m.id # editor.id}
                 \cup {[Look(marks[k]) EXCEPT !.label = editor.typed]}
      BY <1>5, <2>1, <2>6 DEF Seen
    <3> HIDE DEF k
    <3>4. editor.typed \in BOOLEAN
      BY <1>2, <1>5 DEF Fields, NoEditor
    <3>5. /\ DOMAIN marks' = DOMAIN marks /\ \A i \in DOMAIN marks : i # k => marks'[i] = marks[i]
          /\ marks'[k].id = marks[k].id /\ marks'[k].pos = marks[k].pos
          /\ marks'[k].label = editor.typed
      BY <1>2, <3>1, <3>2, <3>4, RelabelFacts DEF SameMarks
    <3>6. Look(marks'[k]) = [Look(marks[k]) EXCEPT !.label = editor.typed]
      BY <3>5 DEF Look
    <3>7. \A i \in DOMAIN marks : marks[i].id = editor.id => i = k
      BY <3>1, EverywhereFacts DEF EditorInv, Drawings, Well, Distinct
    <3>8. {m \in Drawn(marks, NoMark) : m.id # editor.id} = {Look(marks[i]) : i \in DOMAIN marks \ {k}}
      BY <2>3, <2>4, <3>1, <3>7
    <3>9. Drawn(marks', NoMark) = {Look(marks[i]) : i \in DOMAIN marks \ {k}} \cup {Look(marks'[k])}
      <4>1. \A i \in DOMAIN marks : i # k => Look(marks'[i]) = Look(marks[i])
        BY <3>5
      <4>2. QED
        BY <2>3, <3>1, <3>5, <4>1
    <3>10. QED
      BY <1>1, <2>2, <3>3, <3>6, <3>8, <3>9
  <2>7. QED
    BY <2>5, <2>6
<1> QED
  BY <1>3, <1>4, <1>5

(* Saving shows what the user saw: the marks, the one being drawn and what *)
(* is half typed, also when the step it labels was undone meanwhile.       *)
THEOREM SavesWhatIsSeen == EditorSpec => SavedIsSeen
<1>1. EditorInv /\ [EditorNext]_editorVars => [over' /\ ~over => saved' = Seen]_editorVars
  <2> SUFFICES ASSUME EditorInv, EditorNext, over', ~over PROVE saved' = Seen
    OBVIOUS
  <2>1. CASE Save
    BY <2>1, SavesTheSeen
  <2>2. CASE ~Save
    BY <2>2 DEF EditorNext, PressBesideField, EndStroke, TypeInField, cancelTextInput, UndoOrRedo,
                PressText, PressStep, PressShape, beginResize, applyResize, endResize, NextSession, end
  <2>3. QED
    BY <2>1, <2>2
<1> QED
  BY <1>1, EditorInvariance, PTL DEF EditorSpec, SavedIsSeen

-----------------------------------------------------------------------------
(* Undo and redo move along one line of history.                           *)

(* The line that two stacks and the drawing between them make.             *)
Picture == Seq((Nat \ {0}) \X BOOLEAN)
LineOf(u, m, r) ==
  LET line == u \o <<m>> \o Reverse(r) IN [i \in DOMAIN line |-> Abstract(line[i])]
Stacks == Seq(Seq(MarkSet))

LEMMA AbstractFacts ==
  ASSUME NEW ms \in Seq(MarkSet)
  PROVE  /\ Abstract(ms) \in Picture /\ Len(Abstract(ms)) = Len(ms)
         /\ DOMAIN Abstract(ms) = DOMAIN ms
         /\ \A i \in DOMAIN ms : Abstract(ms)[i] = <<ms[i].id, ms[i].label>>
<1>1. \A i \in DOMAIN ms : ms[i] \in MarkSet
  OBVIOUS
<1>2. \A i \in DOMAIN ms : <<ms[i].id, ms[i].label>> \in (Nat \ {0}) \X BOOLEAN
  BY <1>1 DEF MarkSet
<1>3. DOMAIN ms = 1 .. Len(ms) /\ Len(ms) \in Nat
  OBVIOUS
<1> QED
  BY <1>2, <1>3 DEF Abstract, Picture

LEMMA ConcatFacts ==
  ASSUME NEW S, NEW s \in Seq(S), NEW t \in Seq(S)
  PROVE  /\ s \o t \in Seq(S) /\ Len(s \o t) = Len(s) + Len(t)
         /\ \A i \in 1 .. Len(s) : (s \o t)[i] = s[i]
         /\ \A j \in 1 .. Len(t) : (s \o t)[Len(s) + j] = t[j]
<1>1. Len(s) \in Nat /\ Len(t) \in Nat
  OBVIOUS
<1>2. s \o t \in Seq(S) /\ Len(s \o t) = Len(s) + Len(t)
  OBVIOUS
<1>3. ASSUME NEW i \in 1 .. Len(s) PROVE (s \o t)[i] = s[i]
  BY <1>1
<1>4. ASSUME NEW j \in 1 .. Len(t) PROVE (s \o t)[Len(s) + j] = t[j]
  <2>1. Len(s) + j \in 1 .. (Len(s) + Len(t)) /\ ~(Len(s) + j <= Len(s)) /\ (Len(s) + j) - Len(s) = j
    BY <1>1
  <2>2. QED
    BY <1>1, <2>1
<1> QED
  BY <1>2, <1>3, <1>4

LEMMA LineFacts ==
  ASSUME NEW u \in Stacks, NEW m \in Seq(MarkSet), NEW r \in Stacks
  PROVE  /\ LineOf(u, m, r) \in Seq(Picture)
         /\ Len(LineOf(u, m, r)) = Len(u) + 1 + Len(r)
         /\ DOMAIN LineOf(u, m, r) = 1 .. (Len(u) + 1 + Len(r))
         /\ \A i \in 1 .. Len(u) : LineOf(u, m, r)[i] = Abstract(u[i])
         /\ LineOf(u, m, r)[Len(u) + 1] = Abstract(m)
         /\ \A j \in 1 .. Len(r) : LineOf(u, m, r)[Len(u) + 1 + j] = Abstract(r[Len(r) + 1 - j])
<1>0. Len(u) \in Nat /\ Len(r) \in Nat /\ \A j \in 1 .. Len(r) : r[j] \in Seq(MarkSet)
  BY DEF Stacks
<1>1. PICK rev \in Stacks :
        /\ rev = Reverse(r) /\ Len(rev) = Len(r)
        /\ \A j \in 1 .. Len(r) : rev[j] = r[Len(r) + 1 - j]
  <2>1. \A j \in 1 .. Len(r) : (Len(r) - j) + 1 \in 1 .. Len(r) /\ (Len(r) - j) + 1 = Len(r) + 1 - j
    BY <1>0
  <2>2. Reverse(r) = [j \in 1 .. Len(r) |-> r[(Len(r) - j) + 1]]
    BY DEF Reverse
  <2>3. Reverse(r) \in Seq(Seq(MarkSet)) /\ Len(Reverse(r)) = Len(r)
    BY <1>0, <2>1, <2>2
  <2>4. QED
    BY <2>1, <2>2, <2>3 DEF Stacks
<1>2. PICK h \in Stacks :
        /\ h = u \o <<m>> /\ Len(h) = Len(u) + 1 /\ h[Len(u) + 1] = m
        /\ \A i \in 1 .. Len(u) : h[i] = u[i]
  <2>1. u \o <<m>> \in Seq(Seq(MarkSet)) /\ Len(u \o <<m>>) = Len(u) + 1
    BY DEF Stacks
  <2>2. (u \o <<m>>)[Len(u) + 1] = m /\ \A i \in 1 .. Len(u) : (u \o <<m>>)[i] = u[i]
    BY DEF Stacks
  <2>3. QED
    BY <2>1, <2>2 DEF Stacks
<1>3. PICK line \in Stacks :
        /\ LineOf(u, m, r) = [i \in DOMAIN line |-> Abstract(line[i])]
        /\ Len(line) = Len(u) + 1 + Len(r)
        /\ \A i \in 1 .. Len(u) : line[i] = u[i]
        /\ line[Len(u) + 1] = m
        /\ \A j \in 1 .. Len(r) : line[Len(u) + 1 + j] = rev[j]
  <2>1. /\ h \o rev \in Stacks /\ Len(h \o rev) = Len(h) + Len(rev)
        /\ \A i \in 1 .. Len(h) : (h \o rev)[i] = h[i]
        /\ \A j \in 1 .. Len(rev) : (h \o rev)[Len(h) + j] = rev[j]
    BY ConcatFacts DEF Stacks
  <2>2. /\ \A i \in 1 .. Len(u) : i \in 1 .. (Len(u) + 1)
        /\ Len(u) + 1 \in 1 .. (Len(u) + 1)
    BY <1>0
  <2>3. LineOf(u, m, r) = [i \in DOMAIN (h \o rev) |-> Abstract((h \o rev)[i])]
    BY <1>1, <1>2 DEF LineOf
  <2>4. /\ Len(h \o rev) = Len(u) + 1 + Len(r)
        /\ \A i \in 1 .. Len(u) : (h \o rev)[i] = u[i]
        /\ (h \o rev)[Len(u) + 1] = m
    BY <1>1, <1>2, <2>1, <2>2
  <2>5. \A j \in 1 .. Len(r) : (h \o rev)[Len(u) + 1 + j] = rev[j]
    BY <1>1, <1>2, <2>1
  <2>6. QED
    BY <2>1, <2>3, <2>4, <2>5
<1>4. DOMAIN line = 1 .. (Len(u) + 1 + Len(r)) /\ Len(u) + 1 + Len(r) \in Nat
  BY <1>0, <1>3 DEF Stacks
<1>5. \A i \in DOMAIN line : Abstract(line[i]) \in Picture
  <2>1. \A i \in DOMAIN line : line[i] \in Seq(MarkSet)
    BY DEF Stacks
  <2>2. QED
    BY <2>1, AbstractFacts
<1>6. /\ LineOf(u, m, r) \in Seq(Picture)
      /\ Len(LineOf(u, m, r)) = Len(u) + 1 + Len(r)
      /\ DOMAIN LineOf(u, m, r) = 1 .. (Len(u) + 1 + Len(r))
  BY <1>3, <1>4, <1>5
<1>7. \A i \in 1 .. (Len(u) + 1 + Len(r)) : LineOf(u, m, r)[i] = Abstract(line[i])
  BY <1>3, <1>4
<1>8. /\ \A i \in 1 .. Len(u) : i \in 1 .. (Len(u) + 1 + Len(r))
      /\ Len(u) + 1 \in 1 .. (Len(u) + 1 + Len(r))
      /\ \A j \in 1 .. Len(r) : Len(u) + 1 + j \in 1 .. (Len(u) + 1 + Len(r))
  BY <1>0
<1>9. /\ \A i \in 1 .. Len(u) : LineOf(u, m, r)[i] = Abstract(u[i])
      /\ LineOf(u, m, r)[Len(u) + 1] = Abstract(m)
  BY <1>3, <1>7, <1>8
<1>10. \A j \in 1 .. Len(r) : LineOf(u, m, r)[Len(u) + 1 + j] = Abstract(r[Len(r) + 1 - j])
  <2> SUFFICES ASSUME NEW j \in 1 .. Len(r)
               PROVE  LineOf(u, m, r)[Len(u) + 1 + j] = Abstract(r[Len(r) + 1 - j])
    OBVIOUS
  <2>1. LineOf(u, m, r)[Len(u) + 1 + j] = Abstract(line[Len(u) + 1 + j])
    BY <1>7, <1>8
  <2>2. line[Len(u) + 1 + j] = r[Len(r) + 1 - j]
    BY <1>1, <1>3
  <2>3. QED
    BY <2>1, <2>2
<1> QED
  BY <1>6, <1>9, <1>10

(* Moving the drawing in front from one stack to the other leaves the line. *)
LEMMA LineMoves ==
  ASSUME NEW u \in Stacks, NEW m \in Seq(MarkSet), NEW r \in Stacks,
         NEW v \in Stacks, NEW n \in Seq(MarkSet), NEW s \in Stacks,
         Len(u) # 0, Len(v) = Len(u) - 1, Abstract(n) = Abstract(u[Len(u)]),
         \A i \in 1 .. (Len(u) - 1) : v[i] = u[i],
         Len(s) = Len(r) + 1, s[Len(r) + 1] = m,
         \A i \in 1 .. Len(r) : s[i] = r[i]
  PROVE  LineOf(v, n, s) = LineOf(u, m, r)
<1>1. /\ Len(u) \in Nat \ {0} /\ Len(r) \in Nat
      /\ Len(v) = Len(u) - 1 /\ Abstract(n) = Abstract(u[Len(u)])
      /\ \A i \in 1 .. (Len(u) - 1) : v[i] = u[i]
  BY DEF Stacks
<1>2. /\ Len(s) = Len(r) + 1 /\ s[Len(r) + 1] = m
      /\ \A i \in 1 .. Len(r) : s[i] = r[i]
  OBVIOUS
<1>3. PICK old \in Seq(Picture) :
        /\ old = LineOf(u, m, r)
        /\ DOMAIN old = 1 .. (Len(u) + 1 + Len(r))
        /\ \A i \in 1 .. Len(u) : old[i] = Abstract(u[i])
        /\ old[Len(u) + 1] = Abstract(m)
        /\ \A j \in 1 .. Len(r) : old[Len(u) + 1 + j] = Abstract(r[Len(r) + 1 - j])
  <2>1. LineOf(u, m, r) \in Seq(Picture)
    BY ONLY u \in Stacks, m \in Seq(MarkSet), r \in Stacks, LineFacts
  <2>2. DOMAIN LineOf(u, m, r) = 1 .. (Len(u) + 1 + Len(r))
    BY ONLY u \in Stacks, m \in Seq(MarkSet), r \in Stacks, LineFacts
  <2>3. \A i \in 1 .. Len(u) : LineOf(u, m, r)[i] = Abstract(u[i])
    BY ONLY u \in Stacks, m \in Seq(MarkSet), r \in Stacks, LineFacts
  <2>4. LineOf(u, m, r)[Len(u) + 1] = Abstract(m)
    BY ONLY u \in Stacks, m \in Seq(MarkSet), r \in Stacks, LineFacts
  <2>5. \A j \in 1 .. Len(r) : LineOf(u, m, r)[Len(u) + 1 + j] = Abstract(r[Len(r) + 1 - j])
    BY ONLY u \in Stacks, m \in Seq(MarkSet), r \in Stacks, LineFacts
  <2>6. QED
    BY ONLY <2>1, <2>2, <2>3, <2>4, <2>5
<1>4. PICK new \in Seq(Picture) :
        /\ new = LineOf(v, n, s)
        /\ DOMAIN new = 1 .. (Len(v) + 1 + Len(s))
        /\ \A i \in 1 .. Len(v) : new[i] = Abstract(v[i])
        /\ new[Len(v) + 1] = Abstract(n)
        /\ \A j \in 1 .. Len(s) : new[Len(v) + 1 + j] = Abstract(s[Len(s) + 1 - j])
  <2>1. LineOf(v, n, s) \in Seq(Picture)
    BY ONLY v \in Stacks, n \in Seq(MarkSet), s \in Stacks, LineFacts
  <2>2. DOMAIN LineOf(v, n, s) = 1 .. (Len(v) + 1 + Len(s))
    BY ONLY v \in Stacks, n \in Seq(MarkSet), s \in Stacks, LineFacts
  <2>3. \A i \in 1 .. Len(v) : LineOf(v, n, s)[i] = Abstract(v[i])
    BY ONLY v \in Stacks, n \in Seq(MarkSet), s \in Stacks, LineFacts
  <2>4. LineOf(v, n, s)[Len(v) + 1] = Abstract(n)
    BY ONLY v \in Stacks, n \in Seq(MarkSet), s \in Stacks, LineFacts
  <2>5. \A j \in 1 .. Len(s) : LineOf(v, n, s)[Len(v) + 1 + j] = Abstract(s[Len(s) + 1 - j])
    BY ONLY v \in Stacks, n \in Seq(MarkSet), s \in Stacks, LineFacts
  <2>6. QED
    BY ONLY <2>1, <2>2, <2>3, <2>4, <2>5
<1>5. DOMAIN new = DOMAIN old
  BY <1>1, <1>2, <1>3, <1>4
<1>6. ASSUME NEW i \in DOMAIN old PROVE new[i] = old[i]
  <2>0. i \in Int /\ 1 <= i /\ i <= Len(u) + 1 + Len(r)
    BY <1>1, <1>3
  <2>1. CASE i < Len(u)
    <3>1. i \in 1 .. Len(v) /\ i \in 1 .. Len(u) /\ i \in 1 .. (Len(u) - 1)
      BY <1>1, <2>0, <2>1
    <3>2. QED
      BY <1>1, <1>3, <1>4, <3>1
  <2>2. CASE i = Len(u)
    <3>1. i = Len(v) + 1 /\ i \in 1 .. Len(u)
      BY <1>1, <2>2
    <3>2. QED
      BY <1>1, <1>3, <1>4, <2>2, <3>1
  <2>3. CASE i = Len(u) + 1
    <3>1. /\ i = Len(v) + 1 + 1 /\ 1 \in 1 .. Len(s) /\ Len(s) + 1 - 1 = Len(r) + 1
      BY <1>1, <1>2, <2>3
    <3>2. new[i] = Abstract(s[Len(s) + 1 - 1])
      BY <1>4, <3>1
    <3>3. QED
      BY <1>2, <1>3, <2>3, <3>1, <3>2
  <2>4. CASE i > Len(u) + 1
    <3> DEFINE j == i - (Len(u) + 1)
    <3>1. /\ j \in 1 .. Len(r) /\ i = Len(u) + 1 + j /\ j + 1 \in 1 .. Len(s)
          /\ i = Len(v) + 1 + (j + 1) /\ Len(s) + 1 - (j + 1) = Len(r) + 1 - j
          /\ Len(r) + 1 - j \in 1 .. Len(r)
      <4>0. Len(u) \in Int /\ Len(r) \in Int
        BY <1>1
      <4>1. j \in Int /\ 1 <= j /\ j <= Len(r) /\ i = Len(u) + 1 + j
        BY ONLY <2>0, <2>4, <4>0
      <4> HIDE DEF j
      <4>2. j + 1 <= Len(s) /\ 1 <= j + 1 /\ j + 1 \in Int
        BY <1>1, <1>2, <4>1
      <4>3. i = Len(v) + 1 + (j + 1) /\ Len(s) + 1 - (j + 1) = Len(r) + 1 - j
        BY <1>1, <1>2, <4>1
      <4>4. Len(r) + 1 - j \in 1 .. Len(r)
        BY <1>1, <4>1
      <4>5. Len(s) \in Int
        BY <1>1, <1>2
      <4>6. QED
        BY <1>1, <4>1, <4>2, <4>3, <4>4, <4>5
    <3> HIDE DEF j
    <3>2. old[i] = Abstract(r[Len(r) + 1 - j])
      BY <1>3, <3>1
    <3>3. new[i] = Abstract(s[Len(s) + 1 - (j + 1)])
      BY <1>4, <3>1
    <3>4. QED
      BY <1>2, <3>1, <3>2, <3>3
  <2>5. QED
    BY <1>1, <2>0, <2>1, <2>2, <2>3, <2>4
<1>7. new = old
  <2>1. new = [i \in DOMAIN new |-> new[i]] /\ old = [i \in DOMAIN old |-> old[i]]
    OBVIOUS
  <2>2. QED
    BY <1>5, <1>6, <2>1
<1> QED
  BY <1>3, <1>4, <1>7

(* What does not change how drawings look leaves the line alone.           *)
LEMMA LineSame ==
  ASSUME NEW u \in Stacks, NEW m \in Seq(MarkSet), NEW r \in Stacks,
         NEW v \in Stacks, NEW n \in Seq(MarkSet), NEW s \in Stacks,
         Len(v) = Len(u), Len(s) = Len(r), Abstract(n) = Abstract(m),
         \A i \in 1 .. Len(u) : Abstract(v[i]) = Abstract(u[i]),
         \A j \in 1 .. Len(r) : Abstract(s[j]) = Abstract(r[j])
  PROVE  LineOf(v, n, s) = LineOf(u, m, r)
<1>1. Len(u) \in Nat /\ Len(r) \in Nat
  BY DEF Stacks
<1>2. PICK old \in Seq(Picture) :
        /\ old = LineOf(u, m, r)
        /\ DOMAIN old = 1 .. (Len(u) + 1 + Len(r))
        /\ \A i \in 1 .. Len(u) : old[i] = Abstract(u[i])
        /\ old[Len(u) + 1] = Abstract(m)
        /\ \A j \in 1 .. Len(r) : old[Len(u) + 1 + j] = Abstract(r[Len(r) + 1 - j])
  <2>1. LineOf(u, m, r) \in Seq(Picture)
    BY ONLY u \in Stacks, m \in Seq(MarkSet), r \in Stacks, LineFacts
  <2>2. DOMAIN LineOf(u, m, r) = 1 .. (Len(u) + 1 + Len(r))
    BY ONLY u \in Stacks, m \in Seq(MarkSet), r \in Stacks, LineFacts
  <2>3. \A i \in 1 .. Len(u) : LineOf(u, m, r)[i] = Abstract(u[i])
    BY ONLY u \in Stacks, m \in Seq(MarkSet), r \in Stacks, LineFacts
  <2>4. LineOf(u, m, r)[Len(u) + 1] = Abstract(m)
    BY ONLY u \in Stacks, m \in Seq(MarkSet), r \in Stacks, LineFacts
  <2>5. \A j \in 1 .. Len(r) : LineOf(u, m, r)[Len(u) + 1 + j] = Abstract(r[Len(r) + 1 - j])
    BY ONLY u \in Stacks, m \in Seq(MarkSet), r \in Stacks, LineFacts
  <2>6. QED
    BY ONLY <2>1, <2>2, <2>3, <2>4, <2>5
<1>3. PICK new \in Seq(Picture) :
        /\ new = LineOf(v, n, s)
        /\ DOMAIN new = 1 .. (Len(v) + 1 + Len(s))
        /\ \A i \in 1 .. Len(v) : new[i] = Abstract(v[i])
        /\ new[Len(v) + 1] = Abstract(n)
        /\ \A j \in 1 .. Len(s) : new[Len(v) + 1 + j] = Abstract(s[Len(s) + 1 - j])
  <2>1. LineOf(v, n, s) \in Seq(Picture)
    BY ONLY v \in Stacks, n \in Seq(MarkSet), s \in Stacks, LineFacts
  <2>2. DOMAIN LineOf(v, n, s) = 1 .. (Len(v) + 1 + Len(s))
    BY ONLY v \in Stacks, n \in Seq(MarkSet), s \in Stacks, LineFacts
  <2>3. \A i \in 1 .. Len(v) : LineOf(v, n, s)[i] = Abstract(v[i])
    BY ONLY v \in Stacks, n \in Seq(MarkSet), s \in Stacks, LineFacts
  <2>4. LineOf(v, n, s)[Len(v) + 1] = Abstract(n)
    BY ONLY v \in Stacks, n \in Seq(MarkSet), s \in Stacks, LineFacts
  <2>5. \A j \in 1 .. Len(s) : LineOf(v, n, s)[Len(v) + 1 + j] = Abstract(s[Len(s) + 1 - j])
    BY ONLY v \in Stacks, n \in Seq(MarkSet), s \in Stacks, LineFacts
  <2>6. QED
    BY ONLY <2>1, <2>2, <2>3, <2>4, <2>5
<1>4. DOMAIN new = DOMAIN old
  BY <1>2, <1>3
<1>5. ASSUME NEW i \in DOMAIN old PROVE new[i] = old[i]
  <2>0. i \in Int /\ 1 <= i /\ i <= Len(u) + 1 + Len(r)
    BY <1>1, <1>2
  <2>1. CASE i <= Len(u)
    <3>1. i \in 1 .. Len(u) /\ i \in 1 .. Len(v)
      BY <1>1, <2>0, <2>1
    <3>2. QED
      BY <1>2, <1>3, <3>1
  <2>2. CASE i = Len(u) + 1
    BY <1>2, <1>3, <2>2
  <2>3. CASE i > Len(u) + 1
    <3>1. PICK j \in 1 .. Len(r) : i = Len(u) + 1 + j
      <4>1. /\ i - (Len(u) + 1) \in 1 .. Len(r)
            /\ i = Len(u) + 1 + (i - (Len(u) + 1))
        BY ONLY <1>1, <2>0, <2>3
      <4>2. QED
        BY ONLY <4>1
    <3>2. Len(r) + 1 - j \in 1 .. Len(r)
      BY <1>1
    <3>3. /\ old[i] = Abstract(r[Len(r) + 1 - j])
          /\ new[i] = Abstract(s[Len(r) + 1 - j])
      BY <1>2, <1>3, <3>1
    <3>4. QED
      BY <3>2, <3>3
  <2>4. QED
    BY <1>1, <2>0, <2>1, <2>2, <2>3
<1>6. new = old
  <2>1. new = [i \in DOMAIN new |-> new[i]] /\ old = [i \in DOMAIN old |-> old[i]]
    OBVIOUS
  <2>2. QED
    BY <1>4, <1>5, <2>1
<1> QED
  BY <1>2, <1>3, <1>6

(* An edit: what is kept of the past, then the drawing it makes.           *)
Remembered(u, m, v, first) ==
  /\ first <= Len(u) + 1 /\ Len(v) = Len(u) + 2 - first
  /\ \A i \in 1 .. (Len(v) - 1) : v[i] = u[i + first - 1]
  /\ v[Len(v)] = m
Edited(u, m, r, v, n, first) ==
  /\ Front(LineOf(v, n, <<>>)) = SubSeq(LineOf(u, m, r), first, Len(u) + 1)
  /\ Len(SubSeq(LineOf(u, m, r), first, Len(u) + 1)) = Len(v)
  /\ Len(LineOf(v, n, <<>>)) = Len(v) + 1
  /\ Last(LineOf(v, n, <<>>)) = Abstract(n)
  /\ LineOf(u, m, r)[Len(u) + 1] = Abstract(m)
LEMMA LineEdited ==
  ASSUME NEW u \in Stacks, NEW m \in Seq(MarkSet), NEW r \in Stacks,
         NEW v \in Stacks, NEW n \in Seq(MarkSet), NEW first \in {1, 2},
         Remembered(u, m, v, first)
  PROVE  Edited(u, m, r, v, n, first)
<1>a. /\ first <= Len(u) + 1 /\ Len(v) = Len(u) + 2 - first
      /\ \A i \in 1 .. (Len(v) - 1) : v[i] = u[i + first - 1]
      /\ v[Len(v)] = m
  BY DEF Remembered
<1>1. /\ Len(u) \in Nat /\ Len(r) \in Nat /\ Len(v) \in Nat \ {0} /\ first \in Int
      /\ first <= Len(u) + 1 /\ Len(v) = Len(u) + 2 - first
  BY <1>a DEF Stacks
<1>0. PICK s \in Stacks : s = <<>> /\ Len(s) = 0
  <2>1. <<>> \in Stacks /\ Len(<<>>) = 0
    BY DEF Stacks
  <2>2. QED
    BY ONLY <2>1
<1>2. PICK old \in Seq(Picture) :
        /\ old = LineOf(u, m, r)
        /\ DOMAIN old = 1 .. (Len(u) + 1 + Len(r))
        /\ \A i \in 1 .. Len(u) : old[i] = Abstract(u[i])
        /\ old[Len(u) + 1] = Abstract(m)
        /\ \A j \in 1 .. Len(r) : old[Len(u) + 1 + j] = Abstract(r[Len(r) + 1 - j])
  <2>1. LineOf(u, m, r) \in Seq(Picture)
    BY ONLY u \in Stacks, m \in Seq(MarkSet), r \in Stacks, LineFacts
  <2>2. DOMAIN LineOf(u, m, r) = 1 .. (Len(u) + 1 + Len(r))
    BY ONLY u \in Stacks, m \in Seq(MarkSet), r \in Stacks, LineFacts
  <2>3. \A i \in 1 .. Len(u) : LineOf(u, m, r)[i] = Abstract(u[i])
    BY ONLY u \in Stacks, m \in Seq(MarkSet), r \in Stacks, LineFacts
  <2>4. LineOf(u, m, r)[Len(u) + 1] = Abstract(m)
    BY ONLY u \in Stacks, m \in Seq(MarkSet), r \in Stacks, LineFacts
  <2>5. \A j \in 1 .. Len(r) : LineOf(u, m, r)[Len(u) + 1 + j] = Abstract(r[Len(r) + 1 - j])
    BY ONLY u \in Stacks, m \in Seq(MarkSet), r \in Stacks, LineFacts
  <2>6. QED
    BY ONLY <2>1, <2>2, <2>3, <2>4, <2>5
<1>3. PICK new \in Seq(Picture) :
        /\ new = LineOf(v, n, s)
        /\ DOMAIN new = 1 .. (Len(v) + 1 + Len(s))
        /\ \A i \in 1 .. Len(v) : new[i] = Abstract(v[i])
        /\ new[Len(v) + 1] = Abstract(n)
        /\ \A j \in 1 .. Len(s) : new[Len(v) + 1 + j] = Abstract(s[Len(s) + 1 - j])
  <2>1. LineOf(v, n, s) \in Seq(Picture)
    BY ONLY v \in Stacks, n \in Seq(MarkSet), s \in Stacks, LineFacts
  <2>2. DOMAIN LineOf(v, n, s) = 1 .. (Len(v) + 1 + Len(s))
    BY ONLY v \in Stacks, n \in Seq(MarkSet), s \in Stacks, LineFacts
  <2>3. \A i \in 1 .. Len(v) : LineOf(v, n, s)[i] = Abstract(v[i])
    BY ONLY v \in Stacks, n \in Seq(MarkSet), s \in Stacks, LineFacts
  <2>4. LineOf(v, n, s)[Len(v) + 1] = Abstract(n)
    BY ONLY v \in Stacks, n \in Seq(MarkSet), s \in Stacks, LineFacts
  <2>5. \A j \in 1 .. Len(s) : LineOf(v, n, s)[Len(v) + 1 + j] = Abstract(s[Len(s) + 1 - j])
    BY ONLY v \in Stacks, n \in Seq(MarkSet), s \in Stacks, LineFacts
  <2>6. QED
    BY ONLY <2>1, <2>2, <2>3, <2>4, <2>5
<1>4. Len(new) = Len(v) + 1 /\ Last(new) = Abstract(n)
  <2>1. Len(new) = Len(v) + 1
    BY <1>0, <1>1, <1>3
  <2>2. QED
    BY <1>3, <2>1 DEF Last
<1>5. PICK kept \in Seq(Picture) :
        /\ kept = SubSeq(old, first, Len(u) + 1) /\ Len(kept) = Len(v)
        /\ \A i \in 1 .. Len(v) : kept[i] = old[i + first - 1]
        /\ kept = [i \in 1 .. Len(v) |-> kept[i]]
  <2>1. SubSeq(old, first, Len(u) + 1) = [i \in 1 .. Len(v) |-> old[i + first - 1]]
    <3>1. (1 + (Len(u) + 1)) - first = Len(v)
      BY <1>1
    <3>2. Len(u) + 1 \in Int
      BY <1>1
    <3>3. SubSeq(old, first, Len(u) + 1)
            = [i \in 1 .. ((1 + (Len(u) + 1)) - first) |-> old[(i + first) - 1]]
      BY <1>1, <3>2
    <3>4. QED
      BY <3>1, <3>3
  <2>2. \A i \in 1 .. Len(v) : i + first - 1 \in DOMAIN old
    BY <1>1, <1>2
  <2>3. \A i \in 1 .. Len(v) : old[i + first - 1] \in Picture
    BY <2>2
  <2>4. PICK kept \in Seq(Picture) : kept = [i \in 1 .. Len(v) |-> old[i + first - 1]]
    <3>1. [i \in 1 .. Len(v) |-> old[i + first - 1]] \in Seq(Picture)
      BY ONLY <1>1, <2>3
    <3>2. QED
      BY ONLY <3>1
  <2>5. Len(kept) = Len(v) /\ \A i \in 1 .. Len(v) : kept[i] = old[i + first - 1]
    BY <1>1, <2>4
  <2>6. kept = [i \in 1 .. Len(v) |-> kept[i]]
    BY <1>1, <2>4
  <2>7. QED
    BY <2>1, <2>4, <2>5, <2>6
<1>6. ASSUME NEW i \in 1 .. Len(v) PROVE new[i] = kept[i]
  <2>1. CASE i < Len(v)
    <3>1. i \in 1 .. (Len(v) - 1) /\ i + first - 1 \in 1 .. Len(u)
      BY <1>1, <2>1
    <3>2. new[i] = Abstract(u[i + first - 1])
      BY <1>3, <3>1, <1>a
    <3>3. kept[i] = old[i + first - 1]
      BY <1>5
    <3>4. old[i + first - 1] = Abstract(u[i + first - 1])
      BY <1>2, <3>1
    <3>5. QED
      BY ONLY <3>2, <3>3, <3>4
  <2>2. CASE i = Len(v)
    <3>1. i + first - 1 = Len(u) + 1
      BY <1>1, <2>2
    <3>2. QED
      BY <1>2, <1>3, <1>5, <2>2, <3>1, <1>a
  <2>3. QED
    BY <1>1, <2>1, <2>2
<1>7. Front(new) = kept
  <2>1. Front(new) = [i \in 1 .. Len(v) |-> new[i]]
    <3>1. Len(new) - 1 = Len(v)
      BY <1>1, <1>4
    <3>2. Front(new) = [i \in 1 .. (Len(new) - 1) |-> new[i]]
      BY <1>1, <1>4 DEF Front
    <3>3. QED
      BY <3>1, <3>2
  <2>2. kept = [i \in 1 .. Len(v) |-> kept[i]]
    BY <1>5
  <2>3. QED
    BY <1>6, <2>1, <2>2
<1> QED
  BY <1>0, <1>2, <1>3, <1>4, <1>5, <1>7 DEF Edited

-----------------------------------------------------------------------------
(* Every step of the editor is a step of the line, or leaves it alone.     *)

SameLine == Line' = Line /\ Len(undoStack') = Len(undoStack)

LEMMA LineIs ==
  /\ Line = LineOf(undoStack, marks, redoStack)
  /\ Line' = LineOf(undoStack', marks', redoStack')
  BY DEF Line, LineOf

LEMMA UndoLine ==
  ASSUME DrawingTypes, DrawingTypes', undo
  PROVE  History!Undo
<1>1. PICK u, r, v, s \in Stacks : u = undoStack /\ r = redoStack /\ v = undoStack' /\ s = redoStack'
  BY DEF DrawingTypes, Stacks
<1>2. PICK m, n \in Seq(MarkSet) : m = marks /\ n = marks'
  BY DEF DrawingTypes
<1>3. u # <<>> /\ s = Append(r, m) /\ n = Last(u) /\ v = Front(u)
  BY <1>1, <1>2 DEF undo
<1>4. /\ Len(v) = Len(u) - 1 /\ Len(u) \in DOMAIN u /\ n = u[Len(u)]
      /\ \A i \in DOMAIN v : v[i] = u[i]
  BY <1>3, PopFacts DEF Stacks
<1>5. Len(u) \in Nat \ {0} /\ Len(r) \in Nat /\ DOMAIN v = 1 .. (Len(u) - 1)
  <2>1. Len(u) \in Nat /\ DOMAIN u = 1 .. Len(u) /\ Len(r) \in Nat /\ DOMAIN v = 1 .. Len(v)
    BY DEF Stacks
  <2>2. QED
    BY <1>4, <2>1
<1>6. /\ Len(s) = Len(r) + 1 /\ s[Len(r) + 1] = m
      /\ \A i \in 1 .. Len(r) : s[i] = r[i]
  BY <1>3 DEF Stacks
<1>10. /\ Len(u) # 0 /\ Len(v) = Len(u) - 1 /\ Abstract(n) = Abstract(u[Len(u)])
       /\ \A i \in 1 .. (Len(u) - 1) : v[i] = u[i]
  BY ONLY <1>4, <1>5
<1>7. LineOf(v, n, s) = LineOf(u, m, r)
  BY ONLY <1>10, <1>6, LineMoves, u \in Stacks, v \in Stacks, r \in Stacks, s \in Stacks,
          m \in Seq(MarkSet), n \in Seq(MarkSet)
<1>8. Line' = Line
  BY ONLY <1>1, <1>2, <1>7, LineIs
<1>9. Len(undoStack) + 1 > 1 /\ Len(undoStack') + 1 = (Len(undoStack) + 1) - 1
  BY <1>1, <1>4, <1>5
<1> QED
  BY ONLY <1>8, <1>9 DEF History!Undo

LEMMA RedoLine ==
  ASSUME DrawingTypes, DrawingTypes', redo
  PROVE  History!Redo
<1>1. PICK u, r, v, s \in Stacks : u = undoStack /\ r = redoStack /\ v = undoStack' /\ s = redoStack'
  BY DEF DrawingTypes, Stacks
<1>2. PICK m, n \in Seq(MarkSet) : m = marks /\ n = marks'
  BY DEF DrawingTypes
<1>3. r # <<>> /\ v = Append(u, m) /\ n = Last(r) /\ s = Front(r)
  BY <1>1, <1>2 DEF redo
<1>4. /\ Len(s) = Len(r) - 1 /\ Len(r) \in DOMAIN r /\ n = r[Len(r)]
      /\ \A i \in DOMAIN s : s[i] = r[i]
  BY <1>3, PopFacts DEF Stacks
<1>5. Len(r) \in Nat \ {0} /\ Len(u) \in Nat /\ DOMAIN s = 1 .. Len(s) /\ Len(s) \in Nat
  <2>1. Len(r) \in Nat /\ DOMAIN r = 1 .. Len(r) /\ Len(u) \in Nat /\ DOMAIN s = 1 .. Len(s) /\ Len(s) \in Nat
    BY DEF Stacks
  <2>2. QED
    BY <1>4, <2>1
<1>6. /\ Len(v) = Len(u) + 1 /\ v[Len(u) + 1] = m
      /\ \A i \in 1 .. Len(u) : v[i] = u[i]
  BY <1>3 DEF Stacks
<1>7. /\ Len(v) # 0 /\ Len(u) = Len(v) - 1 /\ Abstract(m) = Abstract(v[Len(v)])
      /\ Len(r) = Len(s) + 1 /\ r[Len(s) + 1] = n
      /\ \A i \in 1 .. (Len(v) - 1) : u[i] = v[i]
      /\ \A i \in 1 .. Len(s) : r[i] = s[i]
  <2>1. Len(v) # 0 /\ Len(u) = Len(v) - 1 /\ Abstract(m) = Abstract(v[Len(v)])
    BY ONLY <1>5, <1>6
  <2>2. Len(r) = Len(s) + 1 /\ r[Len(s) + 1] = n
    <3>1. Len(r) = Len(s) + 1
      BY ONLY <1>4, <1>5
    <3>2. QED
      BY ONLY <1>4, <3>1
  <2>3. \A i \in 1 .. (Len(v) - 1) : u[i] = v[i]
    BY ONLY <1>5, <1>6
  <2>4. \A i \in 1 .. Len(s) : r[i] = s[i]
    BY ONLY <1>4, <1>5
  <2>5. QED
    BY ONLY <2>1, <2>2, <2>3, <2>4
<1>8. LineOf(u, m, r) = LineOf(v, n, s)
  BY ONLY <1>7, LineMoves, u \in Stacks, v \in Stacks, r \in Stacks, s \in Stacks,
          m \in Seq(MarkSet), n \in Seq(MarkSet)
<1>9. Line' = Line
  BY ONLY <1>1, <1>2, <1>8, LineIs
<1>10. Len(LineOf(u, m, r)) = Len(u) + 1 + Len(r)
  BY ONLY u \in Stacks, m \in Seq(MarkSet), r \in Stacks, LineFacts
<1>11. Len(undoStack) + 1 < Len(Line) /\ Len(undoStack') + 1 = (Len(undoStack) + 1) + 1
  <2>1. Len(Line) = Len(u) + 1 + Len(r)
    BY ONLY <1>1, <1>2, <1>10, LineIs
  <2>2. QED
    BY <1>1, <1>5, <1>6, <2>1
<1> QED
  BY ONLY <1>9, <1>11 DEF History!Redo

(* A snapshot before an edit.                                              *)
LEMMA EditLine ==
  ASSUME DrawingTypes, DrawingTypes', Snapshot,
         History!OneEdit(Abstract(marks), Abstract(marks'))
  PROVE  History!Edit
<1>1. PICK u, r, v \in Stacks : u = undoStack /\ r = redoStack /\ v = undoStack'
  BY DEF DrawingTypes, Stacks
<1>2. PICK m, n \in Seq(MarkSet) : m = marks /\ n = marks'
  BY DEF DrawingTypes
<1>3. redoStack' = <<>> /\ v = Append(IF Len(u) >= MaxUndo THEN Tail(u) ELSE u, m)
  BY <1>1, <1>2 DEF Snapshot
<1>4. Len(u) \in Nat /\ Len(v) \in Nat /\ MaxUndo \in Nat \ {0}
  BY EditorAssumption DEF Stacks
<1>5. PICK first \in {1, 2} : first = IF Len(u) + 1 > MaxUndo THEN 2 ELSE 1
  OBVIOUS
<1>6. /\ first <= Len(u) + 1 /\ Len(v) = Len(u) + 2 - first /\ v[Len(v)] = m
      /\ \A i \in 1 .. (Len(v) - 1) : v[i] = u[i + first - 1]
  <2>1. CASE Len(u) >= MaxUndo
    <3>1. first = 2 /\ v = Append(Tail(u), m) /\ Len(u) >= 1
      BY <1>3, <1>4, <1>5, <2>1
    <3>2. u # <<>> /\ u \in Seq(Seq(MarkSet))
      BY <1>4, <3>1 DEF Stacks
    <3>3. PICK w \in Seq(Seq(MarkSet)) : w = Tail(u) /\ Len(w) = Len(u) - 1
                                         /\ \A i \in 1 .. (Len(u) - 1) : w[i] = u[i + 1]
      <4>1. Tail(u) \in Seq(Seq(MarkSet)) /\ Len(Tail(u)) = Len(u) - 1
        BY ONLY <3>2
      <4>2. \A i \in 1 .. (Len(u) - 1) : Tail(u)[i] = u[i + 1]
        BY ONLY <3>2
      <4>3. QED
        BY ONLY <4>1, <4>2
    <3>4. /\ Len(v) = Len(u) /\ v[Len(u)] = m /\ \A i \in 1 .. (Len(u) - 1) : v[i] = w[i]
      BY <1>4, <3>1, <3>3
    <3>5. \A i \in 1 .. (Len(v) - 1) : v[i] = u[i + first - 1]
      BY <1>4, <3>1, <3>3, <3>4
    <3>6. QED
      BY <1>4, <3>1, <3>4, <3>5
  <2>2. CASE Len(u) < MaxUndo
    <3>1. first = 1 /\ v = Append(u, m)
      BY <1>3, <1>4, <1>5, <2>2
    <3>2. /\ Len(v) = Len(u) + 1 /\ v[Len(u) + 1] = m /\ \A i \in 1 .. Len(u) : v[i] = u[i]
      BY <3>1 DEF Stacks
    <3>3. \A i \in 1 .. (Len(v) - 1) : v[i] = u[i + first - 1]
      BY <1>4, <3>1, <3>2
    <3>4. QED
      BY <1>4, <3>1, <3>2, <3>3
  <2>3. QED
    BY <1>4, <2>1, <2>2
<1>7. Edited(u, m, r, v, n, first)
  <2>1. Remembered(u, m, v, first)
    BY ONLY <1>6 DEF Remembered
  <2>2. QED
    BY ONLY <2>1, LineEdited, u \in Stacks, r \in Stacks, v \in Stacks,
            m \in Seq(MarkSet), n \in Seq(MarkSet), first \in {1, 2}
<1>8. Line = LineOf(u, m, r) /\ Line' = LineOf(v, n, <<>>)
  BY ONLY <1>1, <1>2, <1>3, LineIs
<1>9. History!Kept = SubSeq(Line, first, Len(undoStack) + 1)
  BY ONLY <1>1, <1>5 DEF History!Kept
<1>10. /\ Len(undoStack') + 1 = Len(Line') /\ Len(undoStack') + 1 = Len(History!Kept) + 1
       /\ Front(Line') = History!Kept
       /\ Line[Len(undoStack) + 1] = Abstract(marks) /\ Last(Line') = Abstract(marks')
  BY ONLY <1>1, <1>2, <1>7, <1>8, <1>9 DEF Edited
<1>11. History!Front(Line') = Front(Line') /\ History!Last(Line') = Last(Line')
  BY ONLY TRUE DEF Front, Last, History!Front, History!Last
<1>12. History!OneEdit(Line[Len(undoStack) + 1], History!Last(Line'))
  BY ONLY <1>10, <1>11, History!OneEdit(Abstract(marks), Abstract(marks'))
<1> QED
  BY ONLY <1>10, <1>11, <1>12 DEF History!Edit

LEMMA CommitLine ==
  ASSUME DrawingTypes, DrawingTypes', NEW a \in MarkSet, commitAnnotation(a)
  PROVE  History!Edit
<1>1. PICK m, n \in Seq(MarkSet) : m = marks /\ n = marks'
  BY DEF DrawingTypes
<1>2. n = Append(m, a) /\ Snapshot
  BY <1>1 DEF commitAnnotation
<1>3. /\ DOMAIN m = 1 .. Len(m) /\ DOMAIN n = 1 .. (Len(m) + 1) /\ Len(m) \in Nat
      /\ \A i \in 1 .. Len(m) : n[i] = m[i]
  BY <1>2
<1>4. PICK s, t \in Picture :
        /\ s = Abstract(m) /\ Len(s) = Len(m) /\ DOMAIN s = 1 .. Len(m)
        /\ t = Abstract(n) /\ Len(t) = Len(m) + 1
        /\ \A i \in 1 .. Len(m) : t[i] = s[i]
  <2>1. /\ Abstract(m) \in Picture /\ Len(Abstract(m)) = Len(m) /\ DOMAIN Abstract(m) = 1 .. Len(m)
        /\ \A i \in 1 .. Len(m) : Abstract(m)[i] = <<m[i].id, m[i].label>>
    BY <1>3, AbstractFacts
  <2>2. Abstract(n) \in Picture /\ Len(Abstract(n)) = Len(n)
    BY AbstractFacts
  <2>3. Len(n) = Len(m) + 1
    BY <1>2
  <2>4. \A i \in 1 .. Len(m) : Abstract(n)[i] = <<n[i].id, n[i].label>>
    BY <1>3 DEF Abstract
  <2>5. \A i \in 1 .. Len(m) : Abstract(n)[i] = Abstract(m)[i]
    BY ONLY <1>3, <2>1, <2>4
  <2>6. QED
    BY ONLY <2>1, <2>2, <2>3, <2>5
<1>5. History!IsPrefix(s, t)
  <2>1. SubSeq(s, 1, Len(m)) = [i \in 1 .. Len(m) |-> s[i]]
    BY <1>3, <1>4
  <2>2. SubSeq(t, 1, Len(m)) = [i \in 1 .. Len(m) |-> t[i]]
    BY <1>3, <1>4
  <2>3. SubSeq(s, 1, Len(m)) = SubSeq(t, 1, Len(m)) /\ Len(s) <= Len(t)
    BY ONLY <1>3, <1>4, <2>1, <2>2
  <2>4. QED
    BY ONLY <1>4, <2>3 DEF History!IsPrefix
<1>6. History!OneEdit(Abstract(marks), Abstract(marks'))
  <2>1. History!OneEdit(s, t)
    BY ONLY <1>4, <1>5 DEF History!OneEdit
  <2>2. QED
    BY ONLY <1>1, <1>4, <2>1
<1> QED
  BY <1>2, <1>6, EditLine

LEMMA UpdateLine ==
  ASSUME DrawingTypes, DrawingTypes', NEW id, NEW b \in BOOLEAN, updateAnnotation(id, b)
  PROVE  History!Edit \/ SameLine
<1>1. CASE ~Exists(id)
  <2>1. UNCHANGED <<marks, undoStack, redoStack>>
    BY <1>1 DEF updateAnnotation
  <2>2. QED
    BY <2>1, LineIs DEF SameLine
<1>2. CASE Exists(id)
  <2>1. PICK m, n \in Seq(MarkSet) : m = marks /\ n = marks'
    BY DEF DrawingTypes
  <2>2. PICK k \in DOMAIN m : n = Relabelled(m, k, b)
    <3>1. IndexOf(id) \in DOMAIN marks
      BY <1>2, ExistsFacts
    <3>2. marks' = Relabelled(marks, IndexOf(id), b)
      BY <1>2 DEF updateAnnotation, Relabelled
    <3>3. QED
      BY <2>1, <3>1, <3>2
  <2>3. Snapshot
    BY <1>2 DEF updateAnnotation
  <2>4. DOMAIN n = DOMAIN m /\ \A i \in DOMAIN m : i # k => n[i] = m[i]
    BY <2>2, RelabelFacts DEF SameMarks
  <2>5. PICK s, t \in Picture :
          /\ s = Abstract(m) /\ DOMAIN s = DOMAIN m /\ Len(s) = Len(m)
          /\ t = Abstract(n) /\ DOMAIN t = DOMAIN m /\ Len(t) = Len(n)
          /\ \A i \in DOMAIN m : i # k => t[i] = s[i]
    <3>1. /\ Abstract(m) \in Picture /\ DOMAIN Abstract(m) = DOMAIN m /\ Len(Abstract(m)) = Len(m)
          /\ \A i \in DOMAIN m : Abstract(m)[i] = <<m[i].id, m[i].label>>
      BY AbstractFacts
    <3>2. /\ Abstract(n) \in Picture /\ DOMAIN Abstract(n) = DOMAIN n /\ Len(Abstract(n)) = Len(n)
          /\ \A i \in DOMAIN n : Abstract(n)[i] = <<n[i].id, n[i].label>>
      BY AbstractFacts
    <3>3. \A i \in DOMAIN m : i # k => Abstract(n)[i] = Abstract(m)[i]
      BY ONLY <2>4, <3>1, <3>2
    <3>4. QED
      BY ONLY <2>4, <3>1, <3>2, <3>3
  <2>6. Len(n) = Len(m)
    BY <2>4
  <2>7. t = [s EXCEPT ![k] = t[k]]
    <3>0. t = [i \in DOMAIN t |-> t[i]]
      BY DEF Picture
    <3>1. t = [i \in DOMAIN m |-> t[i]]
      BY ONLY <2>5, <3>0
    <3>2. [s EXCEPT ![k] = t[k]] = [i \in DOMAIN m |-> IF i = k THEN t[k] ELSE s[i]]
      BY <2>5
    <3>3. QED
      BY ONLY <2>5, <3>1, <3>2
  <2>8. History!OneEdit(Abstract(marks), Abstract(marks'))
    <3>1. History!OneEdit(s, t)
      BY ONLY <2>2, <2>5, <2>6, <2>7 DEF History!OneEdit
    <3>2. QED
      BY ONLY <2>1, <2>5, <3>1
  <2>9. QED
    BY <2>3, <2>8, EditLine
<1> QED
  BY <1>1, <1>2

LEMMA TextInputLine ==
  ASSUME EditorTypes, DrawingTypes', commitTextInput
  PROVE  History!Edit \/ SameLine
<1>1. DrawingTypes /\ placed \in Seq(Int) /\ editor \in Fields
  BY DEF EditorTypes
<1>2. CASE editor.kind = "text" /\ editor.typed
  <2>1. commitAnnotation([id |-> NewId, kind |-> "text", pos |-> editor.pos, number |-> 0, label |-> TRUE])
    BY <1>2 DEF commitTextInput
  <2>2. editor.pos \in Int
    BY <1>1, <1>2 DEF Fields, NoEditor
  <2>3. [id |-> NewId, kind |-> "text", pos |-> editor.pos, number |-> 0, label |-> TRUE] \in MarkSet
    BY <1>1, <2>2 DEF MarkSet, NewId
  <2>4. QED
    BY <1>1, <2>1, <2>3, CommitLine
<1>3. CASE editor.kind = "step"
  <2>1. updateAnnotation(editor.id, editor.typed)
    BY <1>3 DEF commitTextInput
  <2>2. editor.typed \in BOOLEAN
    BY <1>1, <1>3 DEF Fields, NoEditor
  <2>3. QED
    BY <1>1, <2>1, <2>2, UpdateLine
<1>4. CASE ~(editor.kind = "text" /\ editor.typed) /\ editor.kind # "step"
  <2>1. UNCHANGED <<marks, undoStack, redoStack>>
    BY <1>4 DEF commitTextInput
  <2>2. QED
    BY <2>1, LineIs DEF SameLine
<1> QED
  BY <1>2, <1>3, <1>4

(* A resize moves marks, no labels: every drawing looks as it did.         *)
LEMMA MovedLooks ==
  ASSUME NEW ms \in Seq(MarkSet), NEW d \in Int
  PROVE  Abstract(AllMoved(ms, d)) = Abstract(ms)
<1>1. /\ DOMAIN AllMoved(ms, d) = DOMAIN ms
      /\ \A i \in DOMAIN ms : AllMoved(ms, d)[i].id = ms[i].id /\ AllMoved(ms, d)[i].label = ms[i].label
  BY AllMovedFacts DEF SameMarks
<1> QED
  BY ONLY <1>1 DEF Abstract

LEMMA OffsetLine ==
  ASSUME DrawingTypes, DrawingTypes', NEW d \in Int, offsetAll(d)
  PROVE  SameLine
<1>1. PICK u, r, v, s \in Stacks : u = undoStack /\ r = redoStack /\ v = undoStack' /\ s = redoStack'
  BY DEF DrawingTypes, Stacks
<1>2. PICK m, n \in Seq(MarkSet) : m = marks /\ n = marks'
  BY DEF DrawingTypes
<1>3. /\ n = AllMoved(m, d)
      /\ v = [i \in DOMAIN u |-> AllMoved(u[i], d)]
      /\ s = [i \in DOMAIN r |-> AllMoved(r[i], d)]
  BY ONLY <1>1, <1>2, offsetAll(d) DEF offsetAll
<1>4. /\ DOMAIN u = 1 .. Len(u) /\ Len(u) \in Nat /\ DOMAIN r = 1 .. Len(r) /\ Len(r) \in Nat
      /\ DOMAIN v = 1 .. Len(v) /\ Len(v) \in Nat /\ DOMAIN s = 1 .. Len(s) /\ Len(s) \in Nat
      /\ \A i \in 1 .. Len(u) : u[i] \in Seq(MarkSet)
      /\ \A i \in 1 .. Len(r) : r[i] \in Seq(MarkSet)
  BY DEF Stacks
<1>5. Len(v) = Len(u) /\ Len(s) = Len(r)
  <2>1. DOMAIN v = DOMAIN u /\ DOMAIN s = DOMAIN r
    BY ONLY <1>3
  <2>2. 1 .. Len(v) = 1 .. Len(u) /\ 1 .. Len(s) = 1 .. Len(r)
    BY ONLY <1>4, <2>1
  <2>3. \A a, b \in Nat : 1 .. a = 1 .. b => a = b
    <3>1. \A a \in Nat, b \in Nat : a < b => b \in 1 .. b /\ b \notin 1 .. a
      OBVIOUS
    <3>2. SUFFICES ASSUME NEW a \in Nat, NEW b \in Nat, 1 .. a = 1 .. b PROVE ~(a < b) /\ ~(b < a)
      OBVIOUS
    <3>3. QED
      BY <3>1, <3>2
  <2>4. QED
    BY ONLY <1>4, <2>2, <2>3
<1>6. /\ \A i \in 1 .. Len(u) : v[i] = AllMoved(u[i], d)
      /\ \A i \in 1 .. Len(r) : s[i] = AllMoved(r[i], d)
  BY ONLY <1>3, <1>4
<1>7. /\ \A i \in 1 .. Len(u) : Abstract(v[i]) = Abstract(u[i])
      /\ \A j \in 1 .. Len(r) : Abstract(s[j]) = Abstract(r[j])
      /\ Abstract(n) = Abstract(m)
  BY <1>3, <1>4, <1>6, MovedLooks
<1>8. LineOf(v, n, s) = LineOf(u, m, r)
  BY ONLY <1>5, <1>7, LineSame, u \in Stacks, v \in Stacks, r \in Stacks, s \in Stacks,
          m \in Seq(MarkSet), n \in Seq(MarkSet)
<1> QED
  BY ONLY <1>1, <1>2, <1>5, <1>8, LineIs DEF SameLine

LEMMA EmptyLine == LineOf(<<>>, <<>>, <<>>) = <<<<>>>>
<1>1. PICK e \in Stacks : e = <<>> /\ Len(e) = 0
  <2>1. <<>> \in Stacks /\ Len(<<>>) = 0
    BY DEF Stacks
  <2>2. QED
    BY ONLY <2>1
<1>2. PICK m \in Seq(MarkSet) : m = <<>> /\ Abstract(m) = <<>>
  <2>1. <<>> \in Seq(MarkSet) /\ Abstract(<<>>) = <<>>
    BY DEF Abstract
  <2>2. QED
    BY ONLY <2>1
<1>3. PICK line \in Seq(Picture) :
        line = LineOf(e, m, e) /\ DOMAIN line = 1 .. 1 /\ line[1] = Abstract(m)
  <2>1. LineOf(e, m, e) \in Seq(Picture)
    BY ONLY e \in Stacks, m \in Seq(MarkSet), LineFacts
  <2>2. DOMAIN LineOf(e, m, e) = 1 .. (Len(e) + 1 + Len(e))
    BY ONLY e \in Stacks, m \in Seq(MarkSet), LineFacts
  <2>3. LineOf(e, m, e)[Len(e) + 1] = Abstract(m)
    BY ONLY e \in Stacks, m \in Seq(MarkSet), LineFacts
  <2>4. QED
    BY ONLY <1>1, <2>1, <2>2, <2>3
<1>4. Len(line) = 1 /\ line = <<line[1]>>
  <2>1. Len(line) = 1
    BY <1>3
  <2>2. QED
    BY <1>3, <2>1
<1> QED
  BY ONLY <1>1, <1>2, <1>3, <1>4

LEMMA LineBegins == EditorInit => History!Init
<1> SUFFICES ASSUME EditorInit PROVE History!Init
  OBVIOUS
<1>1. marks = <<>> /\ undoStack = <<>> /\ redoStack = <<>>
  BY DEF EditorInit
<1>2. Line = <<<<>>>>
  BY ONLY <1>1, LineIs, EmptyLine
<1>3. Len(undoStack) + 1 = 1
  BY <1>1
<1> QED
  BY ONLY <1>2, <1>3 DEF History!Init

LEMMA LineSteps ==
  EditorInv /\ [EditorNext]_editorVars => [History!Next]_<<Line, Len(undoStack) + 1>>
<1> SUFFICES ASSUME EditorInv, EditorInv', [EditorNext]_editorVars
             PROVE  History!Next \/ SameLine
  <2>1. SameLine => UNCHANGED <<Line, Len(undoStack) + 1>>
    BY DEF SameLine
  <2>2. QED
    BY <2>1, EditorInductive
<1>0. EditorTypes /\ DrawingTypes /\ DrawingTypes'
  BY DEF EditorInv, EditorTypes
<1>1. CASE UndoOrRedo
  BY <1>0, <1>1, UndoLine, RedoLine DEF UndoOrRedo, History!Next
<1>2. CASE commitTextInput
  BY <1>0, <1>2, TextInputLine DEF History!Next
<1>3. ASSUME NEW x \in (-1) .. Width, applyResize(x) PROVE SameLine
  <2>1. left' = Edges(Clamped(x))[1] /\ offsetAll(-(Edges(Clamped(x))[1] - left))
    BY <1>3 DEF applyResize
  <2>2. left' \in Int /\ left \in Int
    BY DEF EditorInv, EditorTypes
  <2>3. PICK d \in Int : offsetAll(d)
    BY <2>1, <2>2
  <2>4. QED
    BY <1>0, <2>3, OffsetLine
<1>4. CASE NextSession
  <2>1. marks' = <<>> /\ undoStack' = <<>> /\ redoStack' = <<>>
    BY <1>4 DEF NextSession
  <2>2. Line' = <<<<>>>>
    BY ONLY <2>1, LineIs, EmptyLine
  <2>3. Len(undoStack') + 1 = 1
    BY <2>1
  <2>4. QED
    BY ONLY <2>2, <2>3 DEF History!Restart, History!Next
<1>5. CASE EndStroke
  <2>1. CASE active # NoMark /\ commitAnnotation(active)
    <3>1. active \in MarkSet
      BY <1>0, <2>1 DEF EditorTypes
    <3>2. QED
      BY <1>0, <2>1, <3>1, CommitLine DEF History!Next
  <2>2. CASE UNCHANGED <<marks, undoStack, redoStack>>
    BY <2>2, LineIs DEF SameLine
  <2>3. QED
    BY <1>5, <2>1, <2>2 DEF EndStroke
<1>6. ASSUME NEW p \in Spots, PressStep(p) PROVE History!Next \/ SameLine
  <2>1. CASE UNCHANGED <<marks, undoStack, redoStack>>
    BY <2>1, LineIs DEF SameLine
  <2>2. CASE commitAnnotation([id |-> NewId, kind |-> "step", pos |-> p,
                               number |-> nextStep, label |-> FALSE])
    <3>1. p \in Int /\ nextStep \in Nat /\ NewId \in Nat \ {0}
      BY <1>0 DEF Spots, EditorTypes, NewId
    <3>2. [id |-> NewId, kind |-> "step", pos |-> p, number |-> nextStep, label |-> FALSE] \in MarkSet
      BY <3>1 DEF MarkSet
    <3>3. QED
      BY <1>0, <2>2, <3>2, CommitLine DEF History!Next
  <2>3. QED
    BY <1>6, <2>1, <2>2 DEF PressStep, state
<1>7. CASE UNCHANGED <<marks, undoStack, redoStack>>
  BY <1>7, LineIs DEF SameLine
<1>8. CASE PressBesideField \/ Save \/ \E e \in {"left", "right", "other"} : beginResize(e)
  BY <1>2, <1>8 DEF PressBesideField, Save, beginResize
<1>9. CASE \/ TypeInField \/ cancelTextInput \/ endResize \/ UNCHANGED editorVars
           \/ \E p \in Spots : PressText(p) \/ PressShape(p)
  BY <1>7, <1>9 DEF TypeInField, cancelTextInput, endResize, PressText, PressShape, state, editorVars
<1> QED
  BY <1>1, <1>3, <1>4, <1>5, <1>6, <1>8, <1>9 DEF EditorNext

(* Undo and redo walk along one line of history: an edit forgets what was  *)
(* undone and at most the oldest state, and nothing else changes the line. *)
THEOREM EditorKeepsHistory == EditorSpec => LinearHistory
BY LineBegins, LineSteps, EditorInvariance, PTL DEF EditorSpec, LinearHistory, History!Spec
=============================================================================

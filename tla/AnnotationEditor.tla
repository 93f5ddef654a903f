-------------------------- MODULE AnnotationEditor --------------------------
(***************************************************************************)
(* Annotating a captured region: qt/src/ui/annotation/AnnotationState.cpp, *)
(* AnnotationCanvas.cpp and the resizing of qt/src/ui/overlay/             *)
(* OverlayWindow.cpp.  Marks are stored relative to the region's top left  *)
(* corner, and the region's edges can be dragged while marks, a half-drawn *)
(* mark, a half-typed label and the undo history exist.  One axis is       *)
(* modelled, the other is alike; a mark has one coordinate, that moves as  *)
(* each of its coordinates does.                                           *)
(***************************************************************************)
EXTENDS Integers, Sequences, FiniteSets, SequencesExt

CONSTANTS
  Width,      \* of the overlay
  MinSpan,    \* least distance of a region's edges (5 in the code)
  MaxUndo,    \* MAX_UNDO
  MaxMarks    \* bound: marks made in a session

ASSUME EditorAssumption ==
  /\ Width \in Nat /\ MinSpan \in Nat \ {0} /\ MinSpan < Width
  /\ MaxUndo \in Nat \ {0} /\ MaxMarks \in Nat

VARIABLES
  left, right,      \* the region: m_startPos, m_endPos
  grip,             \* the edge being dragged, m_activeResize, and where the
                    \* edges were, m_resizeFixedLeft and -Right
  marks, active,    \* m_annotations, m_active
  undoStack, redoStack,
  nextStep,         \* m_nextStep
  dragging,         \* m_dragging
  editor,           \* the text field that is open
  saved, over,      \* what the saved image shows; the session is over
  placed            \* history: where on the screen each mark was put

region == <<left, right, grip>>
state  == <<marks, active, undoStack, redoStack, nextStep>>
end    == <<saved, over>>
editorVars == <<region, state, dragging, editor, end, placed>>

NoMark   == [id |-> 0]
NoEditor == [kind |-> "none"]
NoGrip   == [edge |-> "none"]
Screen   == 0 .. (Width - 1)
NewId    == Len(placed) + 1

Regions == {r \in Screen \X Screen : r[2] - r[1] >= MinSpan}

EditorInit ==
  /\ \E r \in Regions : left = r[1] /\ right = r[2]
  /\ grip = NoGrip
  /\ marks = <<>> /\ active = NoMark
  /\ undoStack = <<>> /\ redoStack = <<>> /\ nextStep = 1
  /\ dragging = FALSE /\ editor = NoEditor
  /\ saved = {} /\ over = FALSE /\ placed = <<>>

-----------------------------------------------------------------------------
(* AnnotationState.                                                        *)

Snapshot ==
  /\ undoStack' = Append(IF Len(undoStack) >= MaxUndo THEN Tail(undoStack)
                         ELSE undoStack, marks)
  /\ redoStack' = <<>>

commitAnnotation(a) ==
  /\ Snapshot
  /\ marks' = Append(marks, a)
  /\ active' = NoMark

IndexOf(id) == CHOOSE i \in DOMAIN marks : marks[i].id = id
Exists(id)  == \E i \in DOMAIN marks : marks[i].id = id

(* Mutant: a relabelling is no new step, and leaves the redo history.      *)
updateInPlace(id, label) ==
  /\ marks' = IF Exists(id) THEN [marks EXCEPT ![IndexOf(id)].label = label] ELSE marks
  /\ UNCHANGED <<undoStack, redoStack, active>>

updateAnnotation(id, label) ==
  IF Exists(id)
  THEN /\ Snapshot
       /\ marks' = [marks EXCEPT ![IndexOf(id)].label = label]
       /\ UNCHANGED active
  ELSE UNCHANGED <<marks, undoStack, redoStack, active>>

Steps(ms) == {ms[i].number : i \in {j \in DOMAIN ms : ms[j].kind = "step"}}

(* Mutant: the next number is not taken back.                              *)
keepNextStep == nextStep' = nextStep

recalcNextStep ==
  nextStep' = 1 + CHOOSE n \in Steps(marks') \cup {0} :
                    \A m \in Steps(marks') \cup {0} : m <= n

undo ==
  /\ undoStack # <<>>
  /\ redoStack' = Append(redoStack, marks)
  /\ marks' = Last(undoStack) /\ undoStack' = Front(undoStack)
  /\ recalcNextStep

redo ==
  /\ redoStack # <<>>
  /\ undoStack' = Append(undoStack, marks)
  /\ marks' = Last(redoStack) /\ redoStack' = Front(redoStack)
  /\ recalcNextStep

Moved(m, d) == IF m = NoMark THEN m ELSE [m EXCEPT !.pos = @ + d]
AllMoved(ms, d) == [i \in DOMAIN ms |-> Moved(ms[i], d)]

(* Mutant: what was undone stays behind.                                   *)
offsetVisible(d) ==
  /\ marks' = AllMoved(marks, d)
  /\ active' = Moved(active, d)
  /\ undoStack' = [i \in DOMAIN undoStack |-> AllMoved(undoStack[i], d)]
  /\ UNCHANGED redoStack

offsetAll(d) ==
  /\ marks' = AllMoved(marks, d)
  /\ active' = Moved(active, d)
  /\ undoStack' = [i \in DOMAIN undoStack |-> AllMoved(undoStack[i], d)]
  /\ redoStack' = [i \in DOMAIN redoStack |-> AllMoved(redoStack[i], d)]

-----------------------------------------------------------------------------
(* AnnotationCanvas: mouse and text.                                       *)

(* Mutant: an open field is closed and what it holds forgotten.            *)
dropTextInput == editor' = NoEditor /\ UNCHANGED <<marks, undoStack, redoStack, active, placed>>

commitTextInput ==
  /\ editor' = NoEditor
  /\ CASE editor.kind = "text" /\ editor.typed ->
            /\ commitAnnotation([id |-> NewId, kind |-> "text", pos |-> editor.pos,
                                 number |-> 0, label |-> TRUE])
            /\ placed' = Append(placed, editor.at)
       [] editor.kind = "step" ->
            updateAnnotation(editor.id, editor.typed) /\ UNCHANGED placed
       [] OTHER -> UNCHANGED <<marks, undoStack, redoStack, active, placed>>

Ready == ~over /\ grip = NoGrip
MayMark == Len(placed) < MaxMarks
Spots == 0 .. (right - left)

(* A press while a field is open only closes it.                           *)
PressBesideField ==
  /\ Ready /\ editor # NoEditor
  /\ commitTextInput
  /\ UNCHANGED <<region, nextStep, dragging, end>>

Closed == Ready /\ editor = NoEditor /\ (dragging => active = NoMark)

PressText(p) ==
  /\ Closed /\ MayMark
  /\ editor' = [kind |-> "text", pos |-> p, at |-> left + p, typed |-> FALSE]
  /\ UNCHANGED <<region, state, dragging, end, placed>>

(* On a step that is there: its label; elsewhere a new step.               *)
PressStep(p) ==
  /\ Closed
  /\ \/ \E i \in DOMAIN marks :
          /\ marks[i].kind = "step" /\ marks[i].pos = p
          /\ editor' = [kind |-> "step", id |-> marks[i].id, typed |-> marks[i].label]
          /\ UNCHANGED <<state, placed>>
     \/ /\ \A i \in DOMAIN marks : marks[i].kind # "step" \/ marks[i].pos # p
        /\ MayMark
        /\ commitAnnotation([id |-> NewId, kind |-> "step", pos |-> p,
                             number |-> nextStep, label |-> FALSE])
        /\ nextStep' = nextStep + 1
        /\ placed' = Append(placed, left + p)
        /\ UNCHANGED editor
  /\ UNCHANGED <<region, dragging, end>>

PressShape(p) ==
  /\ Closed /\ MayMark
  /\ dragging' = TRUE
  /\ active' = [id |-> NewId, kind |-> "shape", pos |-> p, number |-> 0, label |-> FALSE]
  /\ placed' = Append(placed, left + p)
  /\ UNCHANGED <<region, marks, undoStack, redoStack, nextStep, editor, end>>

EndStroke ==
  /\ Ready /\ dragging /\ dragging' = FALSE
  /\ \/ active # NoMark /\ commitAnnotation(active)
     \/ active' = NoMark /\ UNCHANGED <<marks, undoStack, redoStack>>   \* too small
  /\ UNCHANGED <<region, nextStep, editor, end, placed>>

TypeInField ==
  /\ Ready /\ editor # NoEditor
  /\ editor' = [editor EXCEPT !.typed = ~@]
  /\ UNCHANGED <<region, state, dragging, end, placed>>

cancelTextInput ==
  /\ Ready /\ editor # NoEditor
  /\ editor' = NoEditor /\ active' = NoMark
  /\ UNCHANGED <<region, marks, undoStack, redoStack, nextStep, dragging, end, placed>>

(* The keys of undo and redo belong to an open text field; the buttons do  *)
(* not take its focus, so it may stay open.                                *)
UndoOrRedo ==
  /\ ~over
  /\ undo \/ redo
  /\ UNCHANGED <<region, active, dragging, editor, end, placed>>

-----------------------------------------------------------------------------
(* OverlayWindow: resizing.                                                *)

(* Mutant: a half-typed label stays where it was.                          *)
beginResizeTyping(e) ==
  /\ Ready /\ (dragging => active = NoMark)
  /\ grip' = [edge |-> e, left |-> left, right |-> right]
  /\ UNCHANGED <<left, right, state, dragging, editor, end, placed>>

beginResize(e) ==
  /\ Ready /\ (dragging => active = NoMark)
  /\ grip' = [edge |-> e, left |-> left, right |-> right]
  /\ commitTextInput
  /\ UNCHANGED <<left, right, nextStep, dragging, end>>

AtLeast(a, b) == IF a >= b THEN a ELSE b
AtMost(a, b)  == IF a <= b THEN a ELSE b
Clamped(x) == AtLeast(0, AtMost(Width - 1, x))

(* Mutant: the edges keep their order but no distance.                     *)
EdgesOrdered(mx) ==
  LET l == IF grip.edge = "left" THEN mx ELSE grip.left
      r == IF grip.edge = "right" THEN mx ELSE grip.right
  IN <<Clamped(IF r < l /\ grip.edge = "left" THEN r ELSE l),
       Clamped(IF r < l /\ grip.edge = "right" THEN l ELSE r)>>

(* The dragged edge follows the pointer but keeps its distance.            *)
Edges(mx) ==
  LET l == IF grip.edge = "left" THEN mx ELSE grip.left
      r == IF grip.edge = "right" THEN mx ELSE grip.right
      close == r - l < MinSpan
  IN <<Clamped(IF close /\ grip.edge = "left" THEN r - MinSpan ELSE l),
       Clamped(IF close /\ grip.edge = "right" THEN l + MinSpan ELSE r)>>

applyResize(x) ==
  /\ ~over /\ grip # NoGrip
  /\ LET e == Edges(Clamped(x))
     IN /\ left' = e[1] /\ right' = e[2]
        /\ offsetAll(-(e[1] - left))
  /\ UNCHANGED <<grip, nextStep, dragging, editor, end, placed>>

endResize ==
  /\ ~over /\ grip # NoGrip /\ grip' = NoGrip
  /\ UNCHANGED <<left, right, state, dragging, editor, end, placed>>

-----------------------------------------------------------------------------
(* The end of a session.                                                   *)

(* A mark as it looks: where on the screen, and with a label or not.       *)
Look(m) == [id |-> m.id, at |-> left + m.pos, label |-> m.label]
Drawn(ms, a) == {Look(ms[i]) : i \in DOMAIN ms} \cup (IF a = NoMark THEN {} ELSE {Look(a)})

(* compositeForCommit: the field is committed, then everything composed.   *)
Save ==
  /\ ~over /\ over' = TRUE
  /\ commitTextInput
  /\ saved' = Drawn(marks', active')
  /\ UNCHANGED <<region, nextStep, dragging>>

(* Cancelled or saved; the next activation clears.                         *)
NextSession ==
  /\ \E r \in Regions : left' = r[1] /\ right' = r[2]
  /\ grip' = NoGrip
  /\ marks' = <<>> /\ active' = NoMark
  /\ undoStack' = <<>> /\ redoStack' = <<>> /\ nextStep' = 1
  /\ editor' = NoEditor /\ placed' = <<>>
  /\ saved' = {} /\ over' = FALSE
  /\ UNCHANGED dragging

EditorNext ==
  \/ PressBesideField \/ EndStroke \/ TypeInField \/ cancelTextInput \/ UndoOrRedo
  \/ \E p \in Spots : PressText(p) \/ PressStep(p) \/ PressShape(p)
  \/ \E e \in {"left", "right", "other"} : beginResize(e)
  \/ \E x \in (-1) .. Width : applyResize(x)
  \/ endResize \/ Save \/ NextSession

EditorSpec == EditorInit /\ [][EditorNext]_editorVars
-----------------------------------------------------------------------------
(* Properties.                                                             *)

(* However an edge is dragged, the region stays on the overlay and no      *)
(* narrower than a region may be drawn, so every crop is a real one.       *)
RegionSound == 0 <= left /\ right < Width /\ right - left >= MinSpan

Everywhere == {marks} \cup {undoStack[i] : i \in DOMAIN undoStack}
                      \cup {redoStack[i] : i \in DOMAIN redoStack}

(* Every mark - drawn, half drawn, undone or waiting to be redone - stays  *)
(* on the pixels it was put on, whatever is resized in between.            *)
MarksStayPut ==
  /\ \A ms \in Everywhere : \A i \in DOMAIN ms : left + ms[i].pos = placed[ms[i].id]
  /\ active # NoMark => left + active.pos = placed[active.id]

(* A resize neither loses the region nor moves a mark.                     *)
ResizeIsSound == RegionSound /\ MarksStayPut

(* Numbered steps count 1, 2, 3, ... in the order they were made, with no  *)
(* gap and no number twice, and the next step continues the count, through *)
(* any undo, redo and relabelling.                                         *)
StepsCount ==
  /\ Steps(marks) = 1 .. nextStep - 1
  /\ \A i, j \in DOMAIN marks :
       i < j /\ marks[i].kind = "step" /\ marks[j].kind = "step"
         => marks[i].number < marks[j].number

(* What the user sees: the marks, the one being drawn, what is being typed *)
(* (unless the step it belongs to has been undone).                        *)
Seen ==
  {m \in Drawn(marks, active) : editor.kind # "step" \/ m.id # editor.id}
  \cup (IF editor.kind = "text" /\ editor.typed
        THEN {[id |-> NewId, at |-> editor.at, label |-> TRUE]} ELSE {})
  \cup (IF editor.kind = "step" /\ Exists(editor.id)
        THEN {[Look(marks[IndexOf(editor.id)]) EXCEPT !.label = editor.typed]} ELSE {})

(* A saved image shows exactly what the user saw.                          *)
SavedIsSeen == [][over' /\ ~over => saved' = Seen]_editorVars

(* Undo and redo keep one line of history: see EditHistory.  Where a mark  *)
(* is put does not count, its moves are no edits.                          *)
Abstract(ms) == [i \in DOMAIN ms |-> <<ms[i].id, ms[i].label>>]
Line == LET line == undoStack \o <<marks>> \o Reverse(redoStack)
        IN [i \in DOMAIN line |-> Abstract(line[i])]
History == INSTANCE EditHistory WITH
  Depth <- MaxUndo,
  timeline <- Line,
  now <- Len(undoStack) + 1
LinearHistory == History!Spec
=============================================================================

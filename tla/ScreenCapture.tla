--------------------------- MODULE ScreenCapture ---------------------------
(***************************************************************************)
(* One picture of a display on macOS: the index resolved to a display, the *)
(* permission latch that keeps the system's dialogs from piling up, the    *)
(* two asynchronous questions to ScreenCaptureKit, each with a deadline,   *)
(* and the CoreGraphics fallback.  Each call has its thread; displays and  *)
(* permission change under it.  Module Screenshot adds what is done with   *)
(* the picture.                                                            *)
(***************************************************************************)
EXTENDS Naturals, Sequences, FiniteSets

CONSTANTS
  MaxCalls,      \* bound: calls that capture or set up a recording
  Displays,      \* display ids
  None,          \* no picture, no call
  MaxChanges,    \* bound: changes of the display list
  MaxRevokes     \* bound: times the permission is taken away

ASSUME DisplaysAssumption == IsFiniteSet(Displays) /\ Displays # {}
ASSUME BoundsAssumption == MaxCalls \in Nat /\ MaxChanges \in Nat /\ MaxRevokes \in Nat

Calls == 1 .. MaxCalls      \* in the order they begin
ASSUME NoneAssumption == None \notin Calls
Images == [of: Displays, call: Calls, black: BOOLEAN]

VARIABLES
  granted,     \* CGPreflightScreenCaptureAccess
  latch,       \* PERMISSION_DENIED_LATCH
  requested,   \* PERMISSION_REQUESTED_THIS_SESSION
  order,       \* the active displays; a display index is a position
  pc, op,      \* per call: where it is and which operation it runs
  index,       \* per call: the display index it was given
  target,      \* per call: the display id that index meant
  again,       \* per call: a recording's second attempt
  image,       \* per call: the picture so far
  late,        \* the last call whose picture may still come after its deadline
  changes, revokes,
  crossed,     \* history: the recordings that met a revocation, see StaleGrant
  prompts      \* history: permission dialogs this process has raised

permVars == <<granted, latch, requested, revokes, crossed>>
screenVars == <<order, changes>>
callVars == <<op, index, target, again, image>>
captureVars == <<permVars, screenVars, callVars, pc, late, prompts>>

Orders == {s \in [1 .. 2 -> Displays] : s[1] # s[2]} \cup [1 .. 1 -> Displays]
AnyDisplay == CHOOSE d \in Displays : TRUE
Online == {order[i] : i \in DOMAIN order}

CaptureInit ==
  /\ granted \in BOOLEAN /\ latch = FALSE /\ requested = FALSE
  /\ order = CHOOSE s \in Orders : Len(s) = 2
  /\ pc = [c \in Calls |-> "idle"]
  /\ op = [c \in Calls |-> "none"]
  /\ index = [c \in Calls |-> 1]
  /\ target = [c \in Calls |-> AnyDisplay]
  /\ again = [c \in Calls |-> FALSE]
  /\ image = [c \in Calls |-> None]
  /\ late = {} /\ changes = 0 /\ revokes = 0 /\ crossed = {} /\ prompts = 0

Goto(c, l) == pc' = [pc EXCEPT ![c] = l]
At(c, l) == pc[c] = l
InFlight(c) == pc[c] \notin {"idle", "done"}

\* Somebody is about to clear the latch on a grant that is no longer there: a
\* recording that begins now meets the revocation as one in flight at it does.
StaleGrant == ~granted /\ \E c \in Calls : At(c, "clear")

-----------------------------------------------------------------------------
(* The display list and the permission. *)

\* display_id_for_index, over the active displays in their order.  A screenshot
\* looks at the permission next; either attempt of a recording does not.
Resolve(c) ==
  /\ At(c, "resolve")
  /\ \/ /\ index[c] \in DOMAIN order
        /\ target' = [target EXCEPT ![c] = order[index[c]]]
        /\ Goto(c, IF op[c] = "record" THEN "query" ELSE "preflight")
     \/ /\ index[c] \notin DOMAIN order /\ UNCHANGED target
        /\ Goto(c, IF op[c] = "record" THEN "over" ELSE "failed")
  /\ UNCHANGED <<permVars, screenVars, op, index, again, image, late, prompts>>

\* preflight_screen_capture: the grant is read, and in a second step a grant
\* clears the latch.  Without it a screenshot goes straight to CoreGraphics.
Preflight(c) ==
  /\ At(c, "preflight")
  /\ Goto(c, IF granted THEN "clear" ELSE "fallback")
  /\ UNCHANGED <<permVars, screenVars, callVars, late, prompts>>

ClearLatch(c) ==
  /\ At(c, "clear") /\ Goto(c, "query")
  /\ latch' = FALSE
  /\ UNCHANGED <<granted, requested, revokes, crossed, screenVars, callVars, late, prompts>>

\* get_shareable_displays: the question is put unless a denial is latched and
\* still stands.  Put by a process without the grant it raises a dialog.
Ask(c) ==
  /\ At(c, "query") /\ (~latch \/ granted)
  /\ latch' = FALSE
  /\ prompts' = IF granted THEN prompts ELSE prompts + 1
  /\ Goto(c, "content")
  /\ UNCHANGED <<granted, requested, revokes, crossed, screenVars, callVars, late>>

\* A screenshot falls back to CoreGraphics; a recording falls back from the
\* stream to single screenshots, which ask once more, and then fails.
NextAttempt(c) ==
  IF op[c] = "record"
  THEN /\ again' = [again EXCEPT ![c] = TRUE]
       /\ Goto(c, IF again[c] THEN "over" ELSE "resolve")
  ELSE Goto(c, "fallback") /\ UNCHANGED again

DontAsk(c) ==
  /\ At(c, "query") /\ latch /\ ~granted
  /\ NextAttempt(c)
  /\ UNCHANGED <<permVars, screenVars, op, index, target, image, late, prompts>>

\* The content arrives and holds the display, or no longer holds it; the
\* latter ends a recording, first attempt or second.
ContentArrives(c) ==
  /\ At(c, "content") /\ granted
  /\ \/ op[c] = "record" /\ Goto(c, "over")
     \/ op[c] # "record" /\ target[c] \in Online /\ Goto(c, "picture")
     \/ op[c] # "record" /\ target[c] \notin Online /\ Goto(c, "fallback")
  /\ UNCHANGED <<permVars, screenVars, callVars, late, prompts>>

\* The stream found its display and does not start.
StreamRefused(c) ==
  /\ At(c, "content") /\ granted /\ op[c] = "record" /\ ~again[c]
  /\ NextAttempt(c)
  /\ UNCHANGED <<permVars, screenVars, op, index, target, image, late, prompts>>

\* An error, or silence until the deadline; an answer after that meets a
\* channel nobody reads.
ContentMissing(c) ==
  /\ At(c, "content") /\ Goto(c, "denied")
  /\ UNCHANGED <<permVars, screenVars, callVars, late, prompts>>

\* Nothing came and the system says no: latched, so the next call does not ask.
ForgetsDenial(c) ==
  /\ At(c, "denied") /\ NextAttempt(c)
  /\ UNCHANGED <<permVars, screenVars, op, index, target, image, late, prompts>>
LatchDenial(c) ==
  /\ At(c, "denied")
  /\ latch' = (latch \/ ~granted)
  /\ NextAttempt(c)
  /\ UNCHANGED <<granted, requested, revokes, crossed, screenVars,
                 op, index, target, image, late, prompts>>

-----------------------------------------------------------------------------
(* The picture. *)

Picture(c, d, black) == [of |-> d, call |-> c, black |-> black]

\* capture_with_filter: a picture that is not black ends the search; a black
\* one is kept while CoreGraphics is tried.
PictureArrives(c) ==
  /\ At(c, "picture") /\ target[c] \in Online
  /\ \E black \in BOOLEAN :
       /\ image' = [image EXCEPT ![c] = Picture(c, target[c], black)]
       /\ Goto(c, IF black THEN "fallback" ELSE "claim")
  /\ UNCHANGED <<permVars, screenVars, op, index, target, again, late, prompts>>

PictureMissing(c) ==
  /\ At(c, "picture") /\ Goto(c, "fallback")
  /\ late' \in {late, {c}}
  /\ UNCHANGED <<permVars, screenVars, callVars, prompts>>

\* The channel belonged to the call that gave up: its answer goes nowhere.
LateForAnyone(m) ==
  /\ m \in late /\ late' = late \ {m}
  /\ \E c \in Calls : /\ At(c, "picture") /\ Goto(c, "claim")
                      /\ image' = [image EXCEPT ![c] = Picture(m, target[c], FALSE)]
  /\ UNCHANGED <<permVars, screenVars, op, index, target, again, prompts>>
LateAnswer(m) ==
  /\ m \in late /\ late' = late \ {m}
  /\ UNCHANGED <<permVars, screenVars, callVars, pc, prompts>>

\* CGDisplayCreateImage of the display resolved at the start.
CurrentDisplay(c) == IF index[c] <= Len(order) THEN order[index[c]] ELSE target[c]
FallbackDisplay(c) == target[c]

FallbackImages(c) ==
  IF FallbackDisplay(c) \notin Online THEN {None}
  ELSE {None} \cup {Picture(c, FallbackDisplay(c), black) : black \in BOOLEAN}

\* screenshot_with_fallback: a picture that is not black wins, a black one is
\* better than none, the first black one stays.
Fallback(c) ==
  /\ At(c, "fallback")
  /\ \E f \in FallbackImages(c) :
       LET best == IF f = None THEN image[c]
                   ELSE IF ~f.black \/ image[c] = None THEN f ELSE image[c]
       IN /\ image' = [image EXCEPT ![c] = best]
          /\ Goto(c, IF best = None THEN "failed" ELSE "claim")
  /\ UNCHANGED <<permVars, screenVars, op, index, target, again, late, prompts>>

-----------------------------------------------------------------------------
(* The surroundings. *)

\* request_screen_capture_permission, from start-up or the preferences: one
\* dialog per process, which the user may answer with the grant.
RequestPermission ==
  /\ ~granted /\ ~requested
  /\ requested' = TRUE /\ prompts' = prompts + 1
  /\ \/ granted' = TRUE /\ latch' = FALSE
     \/ UNCHANGED <<granted, latch>>
  /\ UNCHANGED <<revokes, crossed, screenVars, callVars, pc, late>>

\* has_screen_capture_permission, and a request that finds the grant.
HasPermission ==
  /\ granted /\ latch' = FALSE
  /\ UNCHANGED <<granted, requested, revokes, crossed, screenVars, callVars, pc, late, prompts>>

\* The user flips the switch in System Settings.
Grant ==
  /\ ~granted /\ granted' = TRUE
  /\ UNCHANGED <<latch, requested, revokes, crossed, screenVars, callVars, pc, late, prompts>>
Revoke ==
  /\ granted /\ revokes < MaxRevokes /\ granted' = FALSE /\ revokes' = revokes + 1
  /\ crossed' = crossed \cup {c \in Calls : op[c] = "record" /\ InFlight(c)}
  /\ UNCHANGED <<latch, requested, screenVars, callVars, pc, late, prompts>>

\* A display is plugged in or out, or the main display changes.
ChangeDisplays ==
  /\ changes < MaxChanges /\ changes' = changes + 1
  /\ order' \in Orders \ {order}
  /\ UNCHANGED <<permVars, callVars, pc, late, prompts>>

CaptureStep(c) ==
  \/ Resolve(c) \/ Preflight(c) \/ ClearLatch(c) \/ Ask(c) \/ DontAsk(c)
  \/ ContentArrives(c) \/ StreamRefused(c) \/ ContentMissing(c) \/ LatchDenial(c)
  \/ PictureArrives(c) \/ PictureMissing(c) \/ Fallback(c)
ScreenStep ==
  \/ \E m \in late : LateAnswer(m)
  \/ RequestPermission \/ HasPermission \/ Grant \/ Revoke \/ ChangeDisplays

-----------------------------------------------------------------------------
(* What a capture promises. *)

\* The picture is of the display the index meant when the call resolved it,
\* taken for this call: not of a display that took its place in the list, and
\* not an answer to an earlier call that came after its deadline.
ShowsAskedDisplay ==
  \A c \in Calls : op[c] = "shot" /\ image[c] # None =>
    image[c].of = target[c] /\ image[c].call = c

\* Asking ScreenCaptureKit without the grant raises a dialog each time, and a
\* recording may ask twice: however calls overlap, a process raises at most one
\* such dialog per call, and one for the explicit request, since a denial seen
\* once stops every second attempt.  Only a revocation can undo that, by a call
\* that clears the latch on a grant it read before: a recording it crossed may
\* raise its second dialog, and none that begins when that is over.
PromptsBounded ==
  prompts <= 1 + Cardinality(Calls) + Cardinality(crossed)
=============================================================================

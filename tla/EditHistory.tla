----------------------------- MODULE EditHistory -----------------------------
(***************************************************************************)
(* What undo and redo promise: the drawing has a line of past and future   *)
(* states and stands at one of them.  An edit forgets the future and adds  *)
(* one state, one mark richer or with one mark changed; undo and redo only *)
(* move along the line.  Only a bounded past is kept.                      *)
(***************************************************************************)
EXTENDS Integers, Sequences, SequencesExt

CONSTANT Depth       \* how many undo steps are kept

VARIABLES timeline,  \* the states of the drawing
          now        \* which of them is current

OneEdit(s, t) ==
  \/ Len(t) = Len(s) + 1 /\ IsPrefix(s, t)
  \/ Len(t) = Len(s) /\ \E k \in DOMAIN s : t = [s EXCEPT ![k] = t[k]]

Kept == SubSeq(timeline, IF now > Depth THEN 2 ELSE 1, now)

Edit ==
  /\ now' = Len(timeline') /\ now' = Len(Kept) + 1
  /\ Front(timeline') = Kept
  /\ OneEdit(timeline[now], Last(timeline'))

Undo == now > 1 /\ now' = now - 1 /\ UNCHANGED timeline
Redo == now < Len(timeline) /\ now' = now + 1 /\ UNCHANGED timeline
Restart == timeline' = <<<<>>>> /\ now' = 1

Init == timeline = <<<<>>>> /\ now = 1
Next == Undo \/ Redo \/ Edit \/ Restart
Spec == Init /\ [][Next]_<<timeline, now>>
=============================================================================

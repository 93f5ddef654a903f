------------------------------ MODULE History ------------------------------
(***************************************************************************)
(* What the history index promises: whoever calls, from whatever thread,   *)
(* each change of the index is one operation applied to all of what was    *)
(* there before, so no concurrent entry is lost and none comes back.       *)
(***************************************************************************)
EXTENDS Sequences, Naturals

CONSTANTS Paths,      \* files that may be indexed
          MaxEntries  \* MAX_ENTRIES

VARIABLE entries      \* indexed paths, oldest first

(* retain: what is left of es without p.                                   *)
Without(es, p) ==
  LET kept[n \in 0 .. Len(es)] ==
        IF n = 0 THEN <<>>
        ELSE IF es[n] = p THEN kept[n - 1] ELSE Append(kept[n - 1], es[n])
  IN kept[Len(es)]

(* The newest MaxEntries of es.                                            *)
Capped(es) ==
  IF Len(es) > MaxEntries
  THEN SubSeq(es, Len(es) - MaxEntries + 1, Len(es)) ELSE es

(* Re-adding a path makes it the newest.                                   *)
Added(es, p) == Capped(Append(Without(es, p), p))

Init == entries = <<>>

Add(p)    == entries' = Added(entries, p)
Remove(p) == entries' = Without(entries, p)
Clear     == entries' = <<>>

Next == Clear \/ \E p \in Paths : Add(p) \/ Remove(p)

Spec == Init /\ [][Next]_entries
=============================================================================

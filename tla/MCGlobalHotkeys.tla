-------------------------- MODULE MCGlobalHotkeys --------------------------
(* GlobalHotkeys with two actions and four chords: two defaults, one of    *)
(* another application, and one without a modifier that Save refuses.      *)
EXTENDS GlobalHotkeys, TLC

CONSTANTS screenshot, record, c1, c2, c3, plain

Defaults == screenshot :> c1 @@ record :> c2
=============================================================================

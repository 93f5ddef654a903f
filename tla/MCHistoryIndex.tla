--------------------------- MODULE MCHistoryIndex ---------------------------
(* HistoryIndex with interchangeable paths and threads.                    *)
EXTENDS HistoryIndex, TLC

Symmetry == Permutations(Paths) \cup Permutations(Clients)
=============================================================================

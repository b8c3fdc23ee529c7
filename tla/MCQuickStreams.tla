--------------------------- MODULE MCQuickStreams ---------------------------
(* QuickStreams on small instances; the workers are interchangeable. *)
EXTENDS QuickStreams, TLC

Symmetry == Permutations(Workers)
=============================================================================

--------------------------- MODULE MCStoredContent ---------------------------
(* Small instances of StoredContent for TLC. *)
EXTENDS StoredContent, TLC

CONSTANTS f1, r1, r2, b1, b2, w1, w2

Symmetry == Permutations({b1, b2}) \cup Permutations({r1, r2}) \cup Permutations({w1, w2})
=============================================================================

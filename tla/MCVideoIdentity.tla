--------------------------- MODULE MCVideoIdentity ---------------------------
(* The instance of VideoIdentity for TLC: two videos that look alike. *)
EXTENDS VideoIdentity, TLC

CONSTANTS a, b

Pair == {<<a, b>>, <<b, a>>}

Symmetric == Permutations(Ingests)
=============================================================================

--------------------------- MODULE MCScoreCache ---------------------------
(* Small instances of ScoreCache: the model values of its constants. *)
EXTENDS ScoreCache, TLC

Interchangeable == Permutations(Writers) \cup Permutations(Readers)
=============================================================================
